---- MODULE Spec2Model ----
(***************************************************************************)
(* Plugin runtime of the CloudStream desktop port: the provider registry   *)
(* (ApiHolder), the search orchestrator (runSearch), the plugin loader     *)
(* (loadPlugin / unloadPlugin) and the set of plugins held by the JVM      *)
(* bridge sidecar.                                                         *)
(***************************************************************************)
EXTENDS Integers, Sequences, FiniteSets, TLC

\* ------------------------------------------------------------------ bounds
MaxHandles == 4
MaxResults == 2
MaxStremio == 1
MaxQueryLen == 2
MaxLists == 3
MaxListLen == 3
MaxInstalls == 1
MaxConcurrent == 2
MaxFetches == 3
MaxVersion == 2
MaxSpawns == 2
MaxPathLen == 2
MaxFiles == 1
MaxThreads == 2
MaxInstances == 3

\* ------------------------------------------------------------- vocabulary
Names == <<"a", "b", "c">>

NameSet == {Names[i] : i \in 1..Len(Names)}

NameOf(i) == Names[((i - 1) % Len(Names)) + 1]

\* A MainAPI object. id is the object's identity (what !== compares), name is
\* its name field; owner and kind record which install created the object.
NoHandle == [id |-> 0, name |-> "", owner |-> "", kind |-> "none"]

HandlePool ==
  {[id |-> i, name |-> NameOf(i), owner |-> "", kind |-> "direct"] : i \in 1..MaxHandles}

Chars == {" ", "x"}

\* Plugin descriptors of the catalogs: internal names, and the repositories
\* (origin catalog URLs) that offer them.
PluginNames == {"a", "b"}

Repos == {"r1", "r2"}

Catalog == {<<"a", "r1">>, <<"a", "r2">>, <<"b", "r1">>}

\* What a plugin URL serves. transport is what downloadPlugin returns for the
\* response's content type (ArrayBuffer or string); head is how the content
\* begins; exports is what evaluating the content as a script does: it
\* throws, it leaves in module.exports something that fails the two validation
\* tests (no object, or no search/load functions), it leaves null or
\* undefined in module.exports, or it leaves a MainAPI object of the given
\* name. size is "large" for content of more bytes than the engine accepts as
\* the arguments of one call; at is the serial number of the fetch that
\* brought the bytes (0 where fetches are not told apart).
ScriptFaults == {"throws", "invalid"}

Codes ==
  {[head |-> "PK", exports |-> "throws", size |-> "small", at |-> 0]}
    \cup {[head |-> "plain", exports |-> e, size |-> "small", at |-> 0] :
             e \in ScriptFaults \cup PluginNames}

Packages == {[transport |-> t, code |-> c] : t \in {"buffer", "text"}, c \in Codes}

NoCode == [head |-> "", exports |-> "", size |-> "", at |-> 0]

Queries == UNION {[1..n -> Chars] : n \in 0..MaxQueryLen}

VARIABLES
  apis,                \* ApiHolder.apis
  lastReg,             \* the most recent call on the ApiHolder and what it did
  sPc,                 \* where the running runSearch call stands
  sProviders,          \* runSearch: providers (the filtered registry snapshot)
  sCalls,              \* runSearch: state of each provider's search promise
  perProviderResults,  \* runSearch: perProviderResults, keys in insertion order
  sResult,             \* the SearchResultState runSearch returned
  mLists,              \* merge loop on its own: allLists
  mOut,                \* merge loop on its own: mergedResults
  storedPlugins,       \* localStorage 'cloudstream_plugins': PluginMetadata[]
  pluginCode,          \* localStorage 'plugin_code_<name>_<repo>'
  jvmLoaded,           \* sidecar PluginManager.loadedPlugins: ids loaded
  inst,                \* loadPlugin calls suspended at an await
  last,                \* the loadPlugin / unloadPlugin call that returned last
  fetches,             \* how many downloads of a plugin URL have completed
  pluginFile,          \* main process: the .cs3 file saved per (pluginId, repositoryUrl)
  staged,              \* jvmBridge.loadPlugin: the file its downloadPlugin returned
  sidecarUp,           \* the JVM bridge process runs and answers
  call,                \* the loadPlugin / reloadPlugin call that started last
  used,                \* the bytes evaluated in-process or handed to the sidecar last
  classLog,            \* the classifications made so far: <<bytes, class>>
  jvmBridgeProcess,    \* main process: the ChildProcess held, 0 for null
  running,             \* the sidecar processes spawned and not yet exited
  spawns,              \* how many sidecar processes were spawned so far
  kills,               \* how many termination signals were sent so far
  listener,            \* the sidecar process that serves port 8765, 0 for none
  isInitialized,       \* JVMBridgeService.isInitialized
  probe,               \* how the health probe of initializeBridge ended
  sup,                 \* the most recent step of the sidecar's supervision
  detail,              \* DetailsPage: the loadData call made last
  snap,                \* the array the last getAllApis call returned
  resumeData,          \* localStorage 'cloudstream_resume_data', parsed
  resumeLog,           \* per episodeUrl, the arguments of the last save not yet cleared
  lastResume,          \* the most recent call on the resume service
  player,              \* PlayerPage: the video element and the resume prompt
  tick,                \* the most recent timeupdate or interval callback
  disk,                \* main process: the plugin files under PLUGINS_DIR
  lastIpc,             \* the most recent plugin-file IPC call and its answer
  rpc,                 \* the most recent jvmBridge.search call and its answer
  loadedPlugins,       \* sidecar PluginManager.loadedPlugins
  pluginApis,          \* sidecar PluginManager.pluginApis
  allProviders,        \* sidecar APIHolder.allProviders
  everLoaded,          \* instances that were put into loadedPlugins
  instances,           \* number of plugin instances constructed so far
  threads,             \* sidecar: the request handlers in flight
  searchPage           \* whether the SearchPage module has been evaluated

regVars == <<apis, lastReg>>
searchVars == <<sPc, sProviders, sCalls, perProviderResults, sResult>>
mergeVars == <<mLists, mOut>>
loaderVars == <<storedPlugins, pluginCode, jvmLoaded, inst, last>>
auxVars == <<fetches, pluginFile, staged, sidecarUp, call, used, classLog>>
hostVars ==
  <<jvmBridgeProcess, running, spawns, kills, listener, isInitialized, probe, sup, detail, snap>>
resumeVars == <<resumeData, resumeLog, lastResume>>
playerVars == <<player, tick>>
fileVars == <<disk, lastIpc>>
rpcVars == <<rpc>>
pmVars == <<loadedPlugins, pluginApis, allProviders, everLoaded, instances, threads>>
pageVars == <<searchPage>>
tailVars == <<fileVars, rpcVars, pmVars, pageVars>>
extVars == <<resumeVars, playerVars, tailVars>>
coreVars == <<regVars, searchVars, mergeVars, loaderVars, auxVars, hostVars>>
vars ==
  <<apis, lastReg, sPc, sProviders, sCalls, perProviderResults, sResult, mLists, mOut,
    storedPlugins, pluginCode, jvmLoaded, inst, last,
    fetches, pluginFile, staged, sidecarUp, call, used, classLog,
    jvmBridgeProcess, running, spawns, kills, listener, isInitialized, probe, sup,
    detail, snap, resumeData, resumeLog, lastResume, player, tick,
    disk, lastIpc, rpc, loadedPlugins, pluginApis, allProviders, everLoaded, instances,
    threads, searchPage>>

\* ------------------------------------------------------------- ApiHolder
RECURSIVE FindByName(_, _, _)
FindByName(list, name, k) ==
  IF k > Len(list) THEN NoHandle
  ELSE IF list[k].name = name THEN list[k]
  ELSE FindByName(list, name, k + 1)

\* getApi(name): the first handle of that name, or undefined
getApi(list, name) == FindByName(list, name, 1)

removePlugin_ByName(list, plugin) == SelectSeq(list, LAMBDA p : p.name # plugin.name)

\* removePlugin(plugin): apis.filter(p => p !== plugin)
removePlugin(list, plugin) == SelectSeq(list, LAMBDA p : p.id # plugin.id)

addPlugin_KeepExisting(list, plugin) == Append(list, plugin)

\* addPlugin(plugin): remove the first handle of the same name, then push
addPlugin(list, plugin) ==
  LET existing == getApi(list, plugin.name)
  IN  Append(IF existing # NoHandle THEN removePlugin(list, existing) ELSE list, plugin)

\* getAllApis(): [...this.apis]
getAllApis(list) == list

\* The calls addPlugin makes, in order: removePlugin(existing) when a handle of
\* the name exists, then the push. removePlugin only filters the array; no
\* method of the removed MainAPI is called.
addPluginEvents(list, plugin) ==
  LET existing == getApi(list, plugin.name)
  IN  (IF existing # NoHandle THEN <<[ev |-> "remove", h |-> existing]>> ELSE <<>>)
        \o <<[ev |-> "push", h |-> plugin]>>

removePluginEvents(list, plugin) == <<[ev |-> "remove", h |-> plugin]>>

NoReg == [op |-> "none", h |-> NoHandle, before |-> <<>>, events |-> <<>>]

AddPlugin(h) ==
  /\ apis' = addPlugin(apis, h)
  /\ lastReg' = [op |-> "add", h |-> h, before |-> apis, events |-> addPluginEvents(apis, h)]
  /\ UNCHANGED <<searchVars, mergeVars, loaderVars, auxVars, hostVars, extVars>>

RemovePlugin(h) ==
  /\ apis' = removePlugin(apis, h)
  /\ lastReg' = [op |-> "remove", h |-> h, before |-> apis, events |-> removePluginEvents(apis, h)]
  /\ UNCHANGED <<searchVars, mergeVars, loaderVars, auxVars, hostVars, extVars>>

\* ------------------------------------------------------------- runSearch
RECURSIVE TrimLeft(_)
TrimLeft(s) == IF s # <<>> /\ Head(s) = " " THEN TrimLeft(Tail(s)) ELSE s

RECURSIVE TrimRight(_)
TrimRight(s) ==
  IF s # <<>> /\ s[Len(s)] = " " THEN TrimRight(SubSeq(s, 1, Len(s) - 1)) ELSE s

\* String.prototype.trim
Trim(s) == TrimRight(TrimLeft(s))

\* A provider's answer: n results, each tagged with the provider that made it.
ResultList(src, n) == [k \in 1..n |-> [src |-> src, n |-> k]]

\* obj[key] = val on a JS object with non-numeric string keys: a new key goes
\* last in enumeration order, an existing key keeps its place.
ObjSet(obj, key, val) ==
  IF \E k \in 1..Len(obj) : obj[k].key = key
  THEN [k \in 1..Len(obj) |-> IF obj[k].key = key THEN [key |-> key, val |-> val] ELSE obj[k]]
  ELSE Append(obj, [key |-> key, val |-> val])

\* Object.values(obj)
ObjValues(obj) == [k \in 1..Len(obj) |-> obj[k].val]

ObjHas(obj, key) == \E k \in 1..Len(obj) : obj[k].key = key

ObjGet(obj, key) == obj[CHOOSE k \in 1..Len(obj) : obj[k].key = key].val

\* One pass of the for loop over allLists at one index, from list k on.
RECURSIVE MergePass(_, _, _)
MergePass(allLists, index, k) ==
  IF k > Len(allLists) THEN <<>>
  ELSE (IF Len(allLists[k]) > index THEN <<allLists[k][index + 1]>> ELSE <<>>)
         \o MergePass(allLists, index, k + 1)

\* The while (true) loop: stop at the first index where nothing was added.
RECURSIVE MergeLoop(_, _)
MergeLoop(allLists, index) ==
  LET pass == MergePass(allLists, index, 1)
  IN  IF Len(pass) = 0 THEN <<>> ELSE pass \o MergeLoop(allLists, index + 1)

RECURSIVE MergeLoop_StopAtShortest(_, _)
MergeLoop_StopAtShortest(allLists, index) ==
  LET pass == MergePass(allLists, index, 1)
  IN  IF Len(pass) < Len(allLists) \/ Len(pass) = 0 THEN <<>>
      ELSE pass \o MergeLoop_StopAtShortest(allLists, index + 1)

RoundRobinMerge_StopAtShortest(allLists) == MergeLoop_StopAtShortest(allLists, 0)

RoundRobinMerge(allLists) == MergeLoop(allLists, 0)

NoResult == [status |-> "none", query |-> <<>>, mergedResults |-> <<>>, perProviderResults |-> <<>>]

\* apiHolder.getAllApis().filter(...): every handle when activeProviders is
\* empty, else the handles whose name it includes.
FilterProviders(list, active) ==
  SelectSeq(getAllApis(list), LAMBDA p : active = {} \/ p.name \in active)

SearchStart_EmptyOnly(query, active) ==
  /\ sPc \in {"idle", "done"}
  /\ LET trimmed == Trim(query)
     IN  IF Len(trimmed) <= 0
         THEN /\ sPc' = "done"
              /\ sProviders' = <<>>
              /\ sCalls' = <<>>
              /\ perProviderResults' = <<>>
              /\ sResult' = [status |-> "idle", query |-> trimmed,
                             mergedResults |-> <<>>, perProviderResults |-> <<>>]
         ELSE /\ sPc' = "fanout"
              /\ sProviders' = FilterProviders(apis, active)
              /\ sCalls' = [i \in 1..Len(FilterProviders(apis, active)) |-> "pending"]
              /\ perProviderResults' = <<>>
              /\ sResult' = [NoResult EXCEPT !.query = trimmed]
  /\ UNCHANGED <<regVars, mergeVars, loaderVars, auxVars, hostVars, extVars>>

\* runSearch up to its first await: the short-query return, or the fan-out.
SearchStart(query, active) ==
  /\ sPc \in {"idle", "done"}
  /\ LET trimmed == Trim(query)
     IN  IF Len(trimmed) <= 1
         THEN /\ sPc' = "done"
              /\ sProviders' = <<>>
              /\ sCalls' = <<>>
              /\ perProviderResults' = <<>>
              /\ sResult' = [status |-> "idle", query |-> trimmed,
                             mergedResults |-> <<>>, perProviderResults |-> <<>>]
         ELSE /\ sPc' = "fanout"
              /\ sProviders' = FilterProviders(apis, active)
              /\ sCalls' = [i \in 1..Len(FilterProviders(apis, active)) |-> "pending"]
              /\ perProviderResults' = <<>>
              /\ sResult' = [NoResult EXCEPT !.query = trimmed]
  /\ UNCHANGED <<regVars, mergeVars, loaderVars, auxVars, hostVars, extVars>>

\* A provider's search resolved with an array: perProviderResults[name] = results
ProviderReturn(i, n) ==
  /\ sPc = "fanout"
  /\ i \in 1..Len(sProviders)
  /\ sCalls[i] = "pending"
  /\ perProviderResults' =
       ObjSet(perProviderResults, sProviders[i].name, ResultList(sProviders[i].name, n))
  /\ sCalls' = [sCalls EXCEPT ![i] = "ok"]
  /\ UNCHANGED <<regVars, mergeVars, loaderVars, auxVars, hostVars, extVars, sPc, sProviders, sResult>>

\* The provider has no search function for this mode, or resolved with
\* something that is no array: nothing is recorded for it.
ProviderNoArray(i) ==
  /\ sPc = "fanout"
  /\ i \in 1..Len(sProviders)
  /\ sCalls[i] = "pending"
  /\ sCalls' = [sCalls EXCEPT ![i] = "none"]
  /\ UNCHANGED <<regVars, mergeVars, loaderVars, auxVars, hostVars, extVars, sPc, sProviders, perProviderResults, sResult>>

\* The provider's search threw or rejected: caught per provider, logged.
ProviderThrow(i) ==
  /\ sPc = "fanout"
  /\ i \in 1..Len(sProviders)
  /\ sCalls[i] = "pending"
  /\ sCalls' = [sCalls EXCEPT ![i] = "failed"]
  /\ UNCHANGED <<regVars, mergeVars, loaderVars, auxVars, hostVars, extVars, sPc, sProviders, perProviderResults, sResult>>

\* The provider (or the sidecar behind a proxy handle) never answers: its
\* promise stays pending. No timer is attached to the call.
ProviderHang(i) ==
  /\ sPc = "fanout"
  /\ i \in 1..Len(sProviders)
  /\ sCalls[i] = "pending"
  /\ sCalls' = [sCalls EXCEPT ![i] = "hung"]
  /\ UNCHANGED <<regVars, mergeVars, loaderVars, auxVars, hostVars, extVars, sPc, sProviders, perProviderResults, sResult>>

\* await Promise.all(...) resumes once every provider promise has settled.
AwaitAll ==
  /\ sPc = "fanout"
  /\ \A i \in 1..Len(sProviders) : sCalls[i] \in {"ok", "none", "failed"}
  /\ sPc' = "stremio"
  /\ UNCHANGED <<regVars, mergeVars, loaderVars, auxVars, hostVars, extVars, sProviders, sCalls, perProviderResults, sResult>>

SearchFinish_StopAtShortest(obj) ==
  /\ perProviderResults' = obj
  /\ sResult' = [status |-> "success", query |-> sResult.query,
                 mergedResults |-> RoundRobinMerge_StopAtShortest(ObjValues(obj)),
                 perProviderResults |-> obj]
  /\ sPc' = "done"
  /\ UNCHANGED <<regVars, mergeVars, loaderVars, auxVars, hostVars, extVars, sProviders, sCalls>>

\* The rest of runSearch after stremioService.search settled: the stremio
\* entry when it returned results, the merge, the success envelope.
SearchFinish(obj) ==
  /\ perProviderResults' = obj
  /\ sResult' = [status |-> "success", query |-> sResult.query,
                 mergedResults |-> RoundRobinMerge(ObjValues(obj)),
                 perProviderResults |-> obj]
  /\ sPc' = "done"
  /\ UNCHANGED <<regVars, mergeVars, loaderVars, auxVars, hostVars, extVars, sProviders, sCalls>>

StremioReturn(n) ==
  /\ sPc = "stremio"
  /\ SearchFinish(IF n > 0
                  THEN ObjSet(perProviderResults, "stremio", ResultList("stremio", n))
                  ELSE perProviderResults)

StremioThrow ==
  /\ sPc = "stremio"
  /\ SearchFinish(perProviderResults)

\* ------------------------------------------------ the merge loop on its own
ListShapes == UNION {[1..n -> 0..MaxListLen] : n \in 0..MaxLists}

ListsOfShape(shape) == [j \in 1..Len(shape) |-> ResultList(j, shape[j])]

NoMerge == <<[src |-> 0, n |-> 0]>>

MergeRun ==
  /\ mOut = NoMerge
  /\ mOut' = RoundRobinMerge(mLists)
  /\ UNCHANGED <<regVars, searchVars, loaderVars, auxVars, hostVars, extVars, mLists>>

\* ---------------------------------------------------------- pluginLoader
NoRecord == [internalName |-> "", repositoryUrl |-> "", version |-> 0, enabled |-> FALSE]

\* plugins.findIndex(p => p.internalName === name && p.repositoryUrl === repo),
\* 0 standing for -1
IndexOfRecord(plugins, name, repo) ==
  LET hit(k) == plugins[k].internalName = name /\ plugins[k].repositoryUrl = repo
  IN  IF \E k \in 1..Len(plugins) : hit(k)
      THEN CHOOSE k \in 1..Len(plugins) : hit(k) /\ \A j \in 1..(k - 1) : ~hit(j)
      ELSE 0

\* plugins.find(p => p.internalName === name)
FindPluginByName(plugins, name) ==
  IF \E k \in 1..Len(plugins) : plugins[k].internalName = name
  THEN plugins[CHOOSE k \in 1..Len(plugins) :
                 /\ plugins[k].internalName = name
                 /\ \A j \in 1..(k - 1) : plugins[j].internalName # name]
  ELSE NoRecord

\* savePluginMetadata(plugin): replace the record of the same internal name
\* and repository, or append
savePluginMetadata(plugins, plugin) ==
  LET index == IndexOfRecord(plugins, plugin.internalName, plugin.repositoryUrl)
  IN  IF index > 0 THEN [plugins EXCEPT ![index] = plugin] ELSE Append(plugins, plugin)

\* isBinaryFile for code read back from localStorage
StoredIsBinaryFile(code) == code.head \in {"PK", "dex"}

\* isBinary(text) inside loadPlugin; head "ctrl" stands for more than 10%
\* control characters among the first 100
isBinary(code, isBinaryFile) ==
  \/ isBinaryFile
  \/ code.head = "PK"
  \/ code.head = "dex"
  \/ code.head = "ctrl"

\* PluginManager.unloadPlugin(pluginId) in the sidecar
pmUnloadPlugin(loaded, pluginId) == loaded \ {pluginId}

\* A new object: an identity no handle of the registry has.
FreshId(list) ==
  CHOOSE i \in 1..(Len(list) + 1) :
    /\ \A k \in 1..Len(list) : list[k].id # i
    /\ \A j \in 1..(i - 1) : \E k \in 1..Len(list) : list[k].id = j

Idle == [pc |-> "idle", name |-> "", repo |-> "", version |-> 0, success |-> FALSE]

NoLast ==
  [op |-> "none", name |-> "", repo |-> "", ok |-> FALSE, stage |-> "", existed |-> FALSE,
   created |-> NoHandle, removed |-> NoHandle, recs |-> 0, found |-> NoRecord, about |-> ""]

\* The stages a PluginLoadError can name
PluginLoadErrorStage == {"download", "parse", "execute", "validate", "register"}

\* loadPlugin returned { success, error: { stage } } to its caller
Returned(name, repo, ok, stage, existed, created) ==
  [op |-> "install", name |-> name, repo |-> repo, ok |-> ok, stage |-> stage,
   existed |-> existed, created |-> created, removed |-> NoHandle, recs |-> 0,
   found |-> NoRecord, about |-> ""]

OuterCatch_Rethrow(name, repo) ==
  [Returned(name, repo, FALSE, "thrown", FALSE, NoHandle) EXCEPT !.about = "unexpected"]

\* The catch around the whole body of loadPlugin: an exception no inner
\* handler took becomes a 'parse' failure, "Unexpected error loading plugin"
OuterCatch(name, repo) ==
  [Returned(name, repo, FALSE, "parse", FALSE, NoHandle) EXCEPT !.about = "unexpected"]

JvmFailure_ReportsSuccess(name, repo) ==
  [Returned(name, repo, TRUE, "", FALSE, NoHandle) EXCEPT !.about = "jvmBridge"]

\* The two failure results of the JVM path: stage 'parse', a message and
\* details that name the JVM bridge
JvmFailure(name, repo) ==
  [Returned(name, repo, FALSE, "parse", FALSE, NoHandle) EXCEPT !.about = "jvmBridge"]

EnabledRecord(name, repo, version) ==
  [internalName |-> name, repositoryUrl |-> repo, version |-> version, enabled |-> TRUE]

\* loadPlugin from the point where code is known: the JVM bridge for binary
\* code (suspends in slot k), else evaluation, validation, registration and
\* the metadata record, all without an await.
AfterCode(k, name, repo, version, code, isBinaryFile) ==
  IF isBinary(code, isBinaryFile)
  THEN /\ inst' = [inst EXCEPT ![k] = [pc |-> "jvm", name |-> name, repo |-> repo,
                                       version |-> version, success |-> FALSE]]
       /\ UNCHANGED <<apis, storedPlugins, jvmLoaded, last>>
  ELSE /\ inst' = [inst EXCEPT ![k] = Idle]
       /\ UNCHANGED jvmLoaded
       /\ IF code.exports = "throws"
          THEN /\ last' = Returned(name, repo, FALSE, "execute", FALSE, NoHandle)
               /\ UNCHANGED <<apis, storedPlugins>>
          ELSE IF code.exports = "invalid"
          THEN /\ last' = Returned(name, repo, FALSE, "validate", FALSE, NoHandle)
               /\ UNCHANGED <<apis, storedPlugins>>
          ELSE IF code.exports = "null"
          THEN /\ last' = OuterCatch(name, repo)
               /\ UNCHANGED <<apis, storedPlugins>>
          ELSE LET pluginInstance == [id |-> FreshId(apis), name |-> code.exports,
                                      owner |-> name, kind |-> "script"]
               IN  /\ apis' = addPlugin(apis, pluginInstance)
                   /\ storedPlugins' =
                        savePluginMetadata(storedPlugins, EnabledRecord(name, repo, version))
                   /\ last' = Returned(name, repo, TRUE, "", FALSE, pluginInstance)

FreeSlot(k) == inst[k].pc = "idle" /\ \A j \in 1..(k - 1) : inst[j].pc # "idle"

\* loadPlugin(plugin, repositoryUrl) up to its first await
LoadPluginStart(k, name, repo, version) ==
  /\ FreeSlot(k)
  /\ <<name, repo>> \in Catalog
  /\ IF getApi(apis, name) # NoHandle
     THEN /\ last' = Returned(name, repo, TRUE, "", TRUE, NoHandle)
          /\ UNCHANGED <<apis, storedPlugins, pluginCode, jvmLoaded, inst>>
     ELSE IF pluginCode[<<name, repo>>] = NoCode
     THEN /\ inst' = [inst EXCEPT ![k] = [pc |-> "download", name |-> name, repo |-> repo,
                                          version |-> version, success |-> FALSE]]
          /\ UNCHANGED <<apis, storedPlugins, pluginCode, jvmLoaded, last>>
     ELSE /\ AfterCode(k, name, repo, version, pluginCode[<<name, repo>>],
                       StoredIsBinaryFile(pluginCode[<<name, repo>>]))
          /\ UNCHANGED pluginCode
  /\ UNCHANGED <<lastReg, searchVars, mergeVars, hostVars, extVars>>

\* downloadPlugin resolved with the content: store it, go on. For an
\* ArrayBuffer, String.fromCharCode(...bytes) comes first; it throws a
\* RangeError when the bytes are more than one call takes as arguments.
LoadPluginDownloaded(k, pkg) ==
  /\ inst[k].pc = "download"
  /\ IF pkg.transport = "buffer" /\ pkg.code.size = "large"
     THEN /\ inst' = [inst EXCEPT ![k] = Idle]
          /\ last' = OuterCatch(inst[k].name, inst[k].repo)
          /\ UNCHANGED <<apis, storedPlugins, pluginCode, jvmLoaded>>
     ELSE /\ pluginCode' = [pluginCode EXCEPT ![<<inst[k].name, inst[k].repo>>] = pkg.code]
          /\ AfterCode(k, inst[k].name, inst[k].repo, inst[k].version, pkg.code,
                       pkg.transport = "buffer")
  /\ UNCHANGED <<lastReg, searchVars, mergeVars, hostVars, extVars>>

\* downloadPlugin resolved with null
LoadPluginDownloadFailed(k) ==
  /\ inst[k].pc = "download"
  /\ inst' = [inst EXCEPT ![k] = Idle]
  /\ last' = Returned(inst[k].name, inst[k].repo, FALSE, "download", FALSE, NoHandle)
  /\ UNCHANGED <<apis, storedPlugins, pluginCode, jvmLoaded, lastReg, searchVars, mergeVars, hostVars, extVars>>

\* The sidecar serves POST /plugin/load: PluginManager.loadPlugin loads the
\* plugin ("loaded"), fails before it touched its maps ("rejected"), or fails
\* after it unloaded the previous instance of the id ("broken").
SidecarLoad(k, outcome) ==
  /\ inst[k].pc = "jvm"
  /\ jvmLoaded' =
       IF outcome = "loaded" THEN pmUnloadPlugin(jvmLoaded, inst[k].name) \cup {inst[k].name}
       ELSE IF outcome = "broken" THEN pmUnloadPlugin(jvmLoaded, inst[k].name)
       ELSE jvmLoaded
  /\ inst' = [inst EXCEPT ![k].pc = "jvmReply", ![k].success = (outcome = "loaded")]
  /\ UNCHANGED <<apis, storedPlugins, pluginCode, last, lastReg, searchVars, mergeVars, hostVars, extVars>>

\* jvmBridge.loadPlugin resolved with the sidecar's result.success: on true
\* the proxy MainAPI is registered and the metadata record saved.
JvmBridgeReplied(k) ==
  /\ inst[k].pc = "jvmReply"
  /\ inst' = [inst EXCEPT ![k] = Idle]
  /\ IF inst[k].success
     THEN LET proxyApi == [id |-> FreshId(apis), name |-> inst[k].name,
                           owner |-> inst[k].name, kind |-> "proxy"]
          IN  /\ apis' = addPlugin(apis, proxyApi)
              /\ storedPlugins' =
                   savePluginMetadata(storedPlugins,
                                      EnabledRecord(inst[k].name, inst[k].repo, inst[k].version))
              /\ last' = Returned(inst[k].name, inst[k].repo, TRUE, "", FALSE, proxyApi)
     ELSE /\ last' = JvmFailure(inst[k].name, inst[k].repo)
          /\ UNCHANGED <<apis, storedPlugins>>
  /\ UNCHANGED <<pluginCode, jvmLoaded, lastReg, searchVars, mergeVars, hostVars, extVars>>

\* jvmBridge.loadPlugin resolved false or threw: the bridge is not reachable,
\* answered with an error status, or the 30 s timer fired.
JvmBridgeFailed(k) ==
  /\ inst[k].pc \in {"jvm", "jvmReply"}
  /\ inst' = [inst EXCEPT ![k] = Idle]
  /\ last' = JvmFailure(inst[k].name, inst[k].repo)
  /\ UNCHANGED <<apis, storedPlugins, pluginCode, jvmLoaded, lastReg, searchVars, mergeVars, hostVars, extVars>>

\* plugin.enabled = false
Disabled_Toggle(plugin) == [plugin EXCEPT !.enabled = ~plugin.enabled]

Disabled(plugin) == [plugin EXCEPT !.enabled = FALSE]

\* unloadPlugin(internalName); found is the record as plugins.find returned it
UnloadPlugin(internalName) ==
  LET plugin == FindPluginByName(storedPlugins, internalName)
      api == getApi(apis, internalName)
  IN  /\ IF plugin # NoRecord
         THEN /\ apis' = IF api # NoHandle THEN removePlugin(apis, api) ELSE apis
              /\ storedPlugins' =
                   savePluginMetadata(storedPlugins, Disabled(plugin))
         ELSE UNCHANGED <<apis, storedPlugins>>
      /\ last' = [NoLast EXCEPT !.op = "unload", !.name = internalName, !.ok = TRUE,
                                !.removed = IF plugin # NoRecord THEN api ELSE NoHandle,
                                !.recs = Len(storedPlugins), !.found = plugin]
      /\ UNCHANGED <<pluginCode, jvmLoaded, inst, lastReg, searchVars, mergeVars, hostVars, extVars>>

\* reloadPlugin(plugin, repositoryUrl) up to the first await of its loadPlugin:
\* unloadPlugin, removal of the stored code, then loadPlugin, which finds no
\* stored code and starts the download unless a handle of the name is left.
ReloadPlugin(k, name, repo, version) ==
  LET plugin == FindPluginByName(storedPlugins, name)
      api == getApi(apis, name)
      unloadedApis == IF plugin # NoRecord /\ api # NoHandle THEN removePlugin(apis, api) ELSE apis
      unloadedPlugins ==
        IF plugin # NoRecord THEN savePluginMetadata(storedPlugins, Disabled(plugin))
        ELSE storedPlugins
  IN  /\ FreeSlot(k)
      /\ <<name, repo>> \in Catalog
      /\ apis' = unloadedApis
      /\ storedPlugins' = unloadedPlugins
      /\ pluginCode' = [pluginCode EXCEPT ![<<name, repo>>] = NoCode]
      /\ IF getApi(unloadedApis, name) # NoHandle
         THEN /\ last' = Returned(name, repo, TRUE, "", TRUE, NoHandle)
              /\ UNCHANGED inst
         ELSE /\ inst' = [inst EXCEPT ![k] = [pc |-> "download", name |-> name, repo |-> repo,
                                              version |-> version, success |-> FALSE]]
              /\ last' = [NoLast EXCEPT !.op = "unload", !.name = name, !.ok = TRUE,
                                        !.removed = IF plugin # NoRecord THEN api ELSE NoHandle,
                                        !.recs = Len(storedPlugins), !.found = plugin]
      /\ UNCHANGED <<jvmLoaded, lastReg, searchVars, mergeVars, hostVars, extVars>>

\* ----------------------------------- the loader with its caches told apart
\* The bytes of a package, whichever fetch brought them
Bytes(code) == [head |-> code.head, exports |-> code.exports, size |-> code.size]

\* The package as fetch number n brought it
Fetched(pkg, n) == [pkg EXCEPT !.code.at = n]

NoCall ==
  [op |-> "none", name |-> "", repo |-> "", version |-> 0, recVersion |-> 0,
   cached |-> FALSE, existed |-> FALSE, fetched |-> FALSE, from |-> 0,
   got |-> NoCode, class |-> ""]

NoUse == [by |-> "none", name |-> "", repo |-> "", code |-> NoCode]

\* The record version loadPlugin would have to compare with: 0 without record
RecordVersion(plugins, name, repo) ==
  IF IndexOfRecord(plugins, name, repo) > 0
  THEN plugins[IndexOfRecord(plugins, name, repo)].version ELSE 0

\* What slot k's call does in this step with the code it has resolved: it
\* takes the JVM path, or it evaluates the code as a script.
ClassOf(k) == IF inst'[k].pc = "jvm" THEN "archive" ELSE "script"

Classified(k, name, repo, code) ==
  /\ classLog' = classLog \cup {<<Bytes(code), ClassOf(k)>>}
  /\ used' = IF ClassOf(k) = "archive" THEN NoUse
             ELSE [by |-> "eval", name |-> name, repo |-> repo, code |-> code]

\* loadPlugin called (the install button of the plugin page)
InstallStart(k, name, repo, version) ==
  /\ LoadPluginStart(k, name, repo, version)
  /\ call' = [op |-> "install", name |-> name, repo |-> repo, version |-> version,
              recVersion |-> RecordVersion(storedPlugins, name, repo),
              cached |-> pluginCode[<<name, repo>>] # NoCode,
              existed |-> getApi(apis, name) # NoHandle,
              fetched |-> inst'[k].pc = "download", from |-> fetches,
              got |-> IF getApi(apis, name) = NoHandle THEN pluginCode[<<name, repo>>] ELSE NoCode,
              class |-> IF getApi(apis, name) = NoHandle /\ pluginCode[<<name, repo>>] # NoCode
                        THEN ClassOf(k) ELSE ""]
  /\ IF getApi(apis, name) = NoHandle /\ pluginCode[<<name, repo>>] # NoCode
     THEN Classified(k, name, repo, pluginCode[<<name, repo>>])
     ELSE used' = NoUse /\ UNCHANGED classLog
  /\ UNCHANGED <<fetches, pluginFile, staged, sidecarUp>>

\* reloadPlugin called
Reinstall(k, name, repo, version) ==
  /\ ReloadPlugin(k, name, repo, version)
  /\ call' = [op |-> "reload", name |-> name, repo |-> repo, version |-> version,
              recVersion |-> RecordVersion(storedPlugins, name, repo),
              cached |-> pluginCode[<<name, repo>>] # NoCode,
              existed |-> inst'[k].pc # "download",
              fetched |-> inst'[k].pc = "download", from |-> fetches,
              got |-> NoCode, class |-> ""]
  /\ used' = NoUse
  /\ UNCHANGED <<fetches, pluginFile, staged, sidecarUp, classLog>>

\* The download of loadPlugin completed with pkg
InstallDownloaded(k, pkg) ==
  /\ fetches < MaxFetches
  /\ LoadPluginDownloaded(k, Fetched(pkg, fetches + 1))
  /\ fetches' = fetches + 1
  /\ IF pkg.transport = "buffer" /\ pkg.code.size = "large"
     THEN /\ call' = [call EXCEPT !.got = Fetched(pkg, fetches + 1).code]
          /\ UNCHANGED <<used, classLog>>
     ELSE /\ call' = [call EXCEPT !.got = Fetched(pkg, fetches + 1).code, !.class = ClassOf(k)]
          /\ Classified(k, inst[k].name, inst[k].repo, Fetched(pkg, fetches + 1).code)
  /\ UNCHANGED <<pluginFile, staged, sidecarUp>>

InstallDownloadFailed(k) ==
  /\ LoadPluginDownloadFailed(k)
  /\ UNCHANGED auxVars

\* jvmBridge.downloadPlugin inside jvmBridge.loadPlugin: the file of the
\* plugin id and repository when the main process has one, else a download of
\* plugin.url of its own, saved by the main process.
BridgeDownload(k, pkg) ==
  /\ inst[k].pc = "jvm"
  /\ staged[k] = NoCode
  /\ LET key == <<inst[k].name, inst[k].repo>>
     IN  IF pluginFile[key] # NoCode
         THEN /\ staged' = [staged EXCEPT ![k] = pluginFile[key]]
              /\ UNCHANGED <<fetches, pluginFile>>
         ELSE /\ fetches < MaxFetches
              /\ pluginFile' = [pluginFile EXCEPT ![key] = Fetched(pkg, fetches + 1).code]
              /\ staged' = [staged EXCEPT ![k] = Fetched(pkg, fetches + 1).code]
              /\ fetches' = fetches + 1
  /\ UNCHANGED <<regVars, searchVars, mergeVars, loaderVars, hostVars, extVars, sidecarUp, call, used,
               classLog>>

\* POST /plugin/load served for the staged file; a file that is no archive
\* has no manifest and is rejected.
SidecarLoadStaged(k, outcome) ==
  /\ sidecarUp
  /\ staged[k] # NoCode
  /\ staged[k].head # "PK" => outcome = "rejected"
  /\ SidecarLoad(k, outcome)
  /\ used' = [by |-> "sidecar", name |-> inst[k].name, repo |-> inst[k].repo, code |-> staged[k]]
  /\ UNCHANGED <<fetches, pluginFile, staged, sidecarUp, call, classLog>>

BridgeReplied(k) ==
  /\ JvmBridgeReplied(k)
  /\ staged' = [staged EXCEPT ![k] = NoCode]
  /\ UNCHANGED <<fetches, pluginFile, sidecarUp, call, used, classLog>>

\* jvmBridge.loadPlugin resolved false or threw: its download failed, the
\* sidecar does not run, answered an error status, or did not answer in time
BridgeFailed(k) ==
  /\ JvmBridgeFailed(k)
  /\ staged' = [staged EXCEPT ![k] = NoCode]
  /\ UNCHANGED <<fetches, pluginFile, sidecarUp, call, used, classLog>>

Uninstall(internalName) ==
  /\ UnloadPlugin(internalName)
  /\ UNCHANGED auxVars


\* ------------------------------------------------ the sidecar's supervision
NoSup == [op |-> "none", ok |-> FALSE, pid |-> 0, held |-> 0]

\* What supervision does not touch
SupFrame ==
  UNCHANGED <<regVars, searchVars, mergeVars, storedPlugins, pluginCode, inst, last,
              fetches, pluginFile, staged, call, used, classLog, detail, snap, extVars>>

\* startJvmBridge(): no bundle at any of the three paths (or spawn threw):
\* a warning and nothing else; else spawn, keep the ChildProcess, and attach
\* the exit handler.
startJvmBridge(found) ==
  /\ IF found
     THEN /\ spawns < MaxSpawns
          /\ spawns' = spawns + 1
          /\ jvmBridgeProcess' = spawns + 1
          /\ running' = running \cup {spawns + 1}
     ELSE UNCHANGED <<jvmBridgeProcess, running, spawns>>
  /\ sup' = [op |-> "start", ok |-> found, pid |-> IF found THEN spawns + 1 ELSE 0,
             held |-> jvmBridgeProcess]
  /\ UNCHANGED <<kills, listener, isInitialized, probe, sidecarUp, jvmLoaded>>
  /\ SupFrame

\* The sidecar process pid has bound 127.0.0.1:8765 and serves; a process
\* that finds the port taken does not serve.
SidecarServes(pid) ==
  /\ pid \in running
  /\ listener = 0
  /\ listener' = pid
  /\ sidecarUp' = TRUE
  /\ jvmLoaded' = {}
  /\ sup' = [op |-> "serve", ok |-> TRUE, pid |-> pid, held |-> jvmBridgeProcess]
  /\ UNCHANGED <<jvmBridgeProcess, running, spawns, kills, isInitialized, probe>>
  /\ SupFrame

\* The 'exit' handler that startJvmBridge attached to process pid
ProcessExit(pid) ==
  /\ pid \in running
  /\ running' = running \ {pid}
  /\ jvmBridgeProcess' = 0
  /\ listener' = IF listener = pid THEN 0 ELSE listener
  /\ sidecarUp' = IF listener = pid THEN FALSE ELSE sidecarUp
  /\ jvmLoaded' = IF listener = pid THEN {} ELSE jvmLoaded
  /\ sup' = [op |-> "exit", ok |-> TRUE, pid |-> pid, held |-> jvmBridgeProcess]
  /\ UNCHANGED <<spawns, kills, isInitialized, probe>>
  /\ SupFrame

stopJvmBridge_KillAgain ==
  /\ kills' = kills + 1
  /\ jvmBridgeProcess' = 0
  /\ sup' = [op |-> "stop", ok |-> TRUE, pid |-> jvmBridgeProcess, held |-> jvmBridgeProcess]
  /\ UNCHANGED <<running, spawns, listener, isInitialized, probe, sidecarUp, jvmLoaded>>
  /\ SupFrame

\* stopJvmBridge(): kill() on the process held, if any, and forget it
stopJvmBridge ==
  /\ IF jvmBridgeProcess # 0
     THEN /\ kills' = kills + 1
          /\ jvmBridgeProcess' = 0
     ELSE UNCHANGED <<kills, jvmBridgeProcess>>
  /\ sup' = [op |-> "stop", ok |-> jvmBridgeProcess # 0, pid |-> jvmBridgeProcess,
             held |-> jvmBridgeProcess]
  /\ UNCHANGED <<running, spawns, listener, isInitialized, probe, sidecarUp, jvmLoaded>>
  /\ SupFrame

initializeBridge_OnSuccessOnly(ok) ==
  /\ ~isInitialized
  /\ ok => sidecarUp
  /\ isInitialized' = ok
  /\ probe' = IF ok THEN "ok" ELSE "failed"
  /\ sup' = [op |-> "probe", ok |-> ok, pid |-> listener, held |-> jvmBridgeProcess]
  /\ UNCHANGED <<jvmBridgeProcess, running, spawns, kills, listener, sidecarUp, jvmLoaded>>
  /\ SupFrame

\* initializeBridge() when not yet initialized: GET /health with a 2 s limit.
\* It answers ok only if a sidecar serves; a refused connection, a timeout or
\* an error status end in the catch or fall through. Either way the flag is set.
initializeBridge(ok) ==
  /\ ~isInitialized
  /\ ok => sidecarUp
  /\ isInitialized' = TRUE
  /\ probe' = IF ok THEN "ok" ELSE "failed"
  /\ sup' = [op |-> "probe", ok |-> ok, pid |-> listener, held |-> jvmBridgeProcess]
  /\ UNCHANGED <<jvmBridgeProcess, running, spawns, kills, listener, sidecarUp, jvmLoaded>>
  /\ SupFrame

BridgeRpc_Regress(ok) ==
  /\ isInitialized
  /\ ok => sidecarUp
  /\ isInitialized' = ok
  /\ sup' = [op |-> "rpc", ok |-> ok, pid |-> listener, held |-> jvmBridgeProcess]
  /\ UNCHANGED <<jvmBridgeProcess, running, spawns, kills, listener, probe, sidecarUp,
                 jvmLoaded>>
  /\ SupFrame

\* One request of jvmBridge.loadPlugin, search or load after initializeBridge:
\* answered, or failed (refused, error status, timeout); the failure is logged
\* and turned into false, [] or null.
BridgeRpc(ok) ==
  /\ isInitialized
  /\ ok => sidecarUp
  /\ sup' = [op |-> "rpc", ok |-> ok, pid |-> listener, held |-> jvmBridgeProcess]
  /\ UNCHANGED <<jvmBridgeProcess, running, spawns, kills, listener, isInitialized, probe,
                 sidecarUp, jvmLoaded>>
  /\ SupFrame


\* ------------------------------------------------------- the resume service
\* JavaScript numbers: a finite number of seconds, Infinity, NaN, and the null
\* that JSON puts in place of the two.
Num(n) == [k |-> "num", v |-> n]
Infinity == [k |-> "inf", v |-> 0]
NaN == [k |-> "nan", v |-> 0]
Null == [k |-> "null", v |-> 0]

\* Number(x) for a finite number or null
ToNumber(x) == IF x.k = "null" THEN 0 ELSE x.v

\* x < n and x > n for a finite literal n
LessThan(x, n) ==
  CASE x.k \in {"num", "null"} -> ToNumber(x) < n
    [] OTHER -> FALSE
GreaterThan(x, n) ==
  CASE x.k \in {"num", "null"} -> ToNumber(x) > n
    [] x.k = "inf" -> TRUE
    [] OTHER -> FALSE

\* p / d > 0.9 and p / d < 0.9 for a finite p >= 0: in tenths, without division
RatioAbove(p, d) ==
  CASE d.k \in {"num", "null"} /\ ToNumber(d) > 0 -> 10 * ToNumber(p) > 9 * ToNumber(d)
    [] d.k \in {"num", "null"} /\ ToNumber(d) = 0 -> ToNumber(p) > 0
    [] OTHER -> FALSE
RatioBelow(p, d) ==
  CASE d.k \in {"num", "null"} /\ ToNumber(d) > 0 -> 10 * ToNumber(p) < 9 * ToNumber(d)
    [] d.k = "inf" -> TRUE
    [] OTHER -> FALSE

\* JSON.parse(JSON.stringify(x)) of a number: Infinity and NaN come back as null
JsonNumber(x) == IF x.k \in {"inf", "nan"} THEN Null ELSE x

ContentIds == {"u1", "u2"}
Positions == {Num(5), Num(10), Num(11), Num(50), Num(90), Num(95)}
Durations == {Num(0), Num(100), Infinity}
EpisodeNames == {"Episode"}

NoEntry ==
  [position |-> Null, duration |-> Null, episodeUrl |-> "", episodeName |-> ""]

ResumeEntry(episodeUrl, position, duration, episodeName) ==
  [position |-> position, duration |-> duration, episodeUrl |-> episodeUrl,
   episodeName |-> episodeName]

\* The entry as localStorage gives it back
JsonEntry(entry) ==
  [entry EXCEPT !.position = JsonNumber(@), !.duration = JsonNumber(@)]

\* allData[episodeUrl] = resumeData; setItem(STORAGE_KEY, JSON.stringify(allData))
saveResumePosition(store, episodeUrl, position, duration, episodeName) ==
  [store EXCEPT ![episodeUrl] =
     JsonEntry(ResumeEntry(episodeUrl, position, duration, episodeName))]

\* allData[episodeUrl] || null
getResumePosition(store, episodeUrl) == store[episodeUrl]

\* delete allData[episodeUrl]; setItem(...)
clearResumePosition(store, episodeUrl) == [store EXCEPT ![episodeUrl] = NoEntry]

shouldResume_From11(resumeData_) ==
  IF resumeData_ = NoEntry THEN FALSE
  ELSE IF ~GreaterThan(resumeData_.position, 10) THEN FALSE
  ELSE IF GreaterThan(resumeData_.duration, 0)
          /\ RatioAbove(resumeData_.position, resumeData_.duration)
       THEN FALSE
  ELSE TRUE

shouldResume(resumeData_) ==
  IF resumeData_ = NoEntry THEN FALSE
  ELSE IF LessThan(resumeData_.position, 10) THEN FALSE
  ELSE IF GreaterThan(resumeData_.duration, 0)
          /\ RatioAbove(resumeData_.position, resumeData_.duration)
       THEN FALSE
  ELSE TRUE

NoResumeCall == [op |-> "none", id |-> "", entry |-> NoEntry, result |-> FALSE]

ResumeFrame == UNCHANGED <<coreVars, playerVars, tailVars>>

SaveResumePosition(episodeUrl, position, duration, episodeName) ==
  /\ resumeData' = saveResumePosition(resumeData, episodeUrl, position, duration, episodeName)
  /\ resumeLog' = [resumeLog EXCEPT ![episodeUrl] =
                     ResumeEntry(episodeUrl, position, duration, episodeName)]
  /\ lastResume' = [op |-> "save", id |-> episodeUrl,
                    entry |-> ResumeEntry(episodeUrl, position, duration, episodeName),
                    result |-> FALSE]
  /\ ResumeFrame

ClearResumePosition(episodeUrl) ==
  /\ resumeData' = clearResumePosition(resumeData, episodeUrl)
  /\ resumeLog' = [resumeLog EXCEPT ![episodeUrl] = NoEntry]
  /\ lastResume' = [op |-> "clear", id |-> episodeUrl, entry |-> NoEntry, result |-> FALSE]
  /\ ResumeFrame

\* shouldResume(getResumePosition(episodeUrl)), as the player calls it
CheckResume(episodeUrl) ==
  /\ lastResume' = [op |-> "check", id |-> episodeUrl,
                    entry |-> getResumePosition(resumeData, episodeUrl),
                    result |-> shouldResume(getResumePosition(resumeData, episodeUrl))]
  /\ UNCHANGED <<resumeData, resumeLog>>
  /\ ResumeFrame

\* ------------------------------------------------------------ the player
PlayerTimes == Positions \cup {Num(0)}
MediaDurations == {Num(100), Infinity}

NoPlayer ==
  [url |-> "", currentTime |-> Num(0), duration |-> NaN, paused |-> TRUE,
   showResumePrompt |-> FALSE, resumePosition |-> Null]

NoTick ==
  [kind |-> "none", url |-> "", currentTime |-> Num(0), duration |-> NaN, saved |-> FALSE]

PlayerFrame == UNCHANGED <<coreVars, tailVars>>

\* The condition under which a callback saves the position:
\* video.duration > 0, currentTime > 10 and currentTime / duration < 0.9
WorthSaving_Below95(currentTime, duration) ==
  /\ GreaterThan(duration, 0)
  /\ GreaterThan(currentTime, 10)
  /\ ~RatioAbove(currentTime, duration) \/ ToNumber(currentTime) <= 95

WorthSaving(currentTime, duration) ==
  /\ GreaterThan(duration, 0)
  /\ GreaterThan(currentTime, 10)
  /\ RatioBelow(currentTime, duration)

\* What a callback does to the store and what it records
PlayerSaves(kind, allowed) ==
  LET saves == allowed /\ WorthSaving(player.currentTime, player.duration)
      entry == ResumeEntry(player.url, player.currentTime, player.duration, "Episode")
  IN  /\ tick' = [kind |-> kind, url |-> player.url, currentTime |-> player.currentTime,
                  duration |-> player.duration, saved |-> saves]
      /\ IF saves
         THEN /\ resumeData' = saveResumePosition(resumeData, player.url, player.currentTime,
                                                  player.duration, "Episode")
              /\ resumeLog' = [resumeLog EXCEPT ![player.url] = entry]
              /\ lastResume' = [op |-> "save", id |-> player.url, entry |-> entry,
                                result |-> FALSE]
         ELSE UNCHANGED resumeVars

\* The page is opened for a video URL: a new video element
OpenPlayer(url) ==
  /\ player' = [NoPlayer EXCEPT !.url = url]
  /\ tick' = NoTick
  /\ UNCHANGED resumeVars
  /\ PlayerFrame

\* handleLoadedMetadata: the duration is known; the saved position is read
\* once and offered when shouldResume says so
HandleLoadedMetadata(duration) ==
  /\ player.url # ""
  /\ player.duration = NaN
  /\ LET saved == getResumePosition(resumeData, player.url)
     IN  /\ player' = IF saved # NoEntry /\ shouldResume(saved)
                      THEN [player EXCEPT !.duration = duration,
                                          !.resumePosition = saved.position,
                                          !.showResumePrompt = TRUE]
                      ELSE [player EXCEPT !.duration = duration]
         /\ lastResume' = [op |-> "check", id |-> player.url, entry |-> saved,
                           result |-> shouldResume(saved)]
  /\ UNCHANGED <<resumeData, resumeLog, tick>>
  /\ PlayerFrame

\* togglePlayPause
TogglePlayPause ==
  /\ player.url # ""
  /\ player.duration # NaN
  /\ player' = [player EXCEPT !.paused = ~player.paused]
  /\ UNCHANGED <<resumeVars, tick>>
  /\ PlayerFrame

\* Playback or a seek moves the video's currentTime
TimeMoves(t) ==
  /\ player.url # ""
  /\ player.duration # NaN
  /\ t # player.currentTime
  /\ player.duration.k = "num" => ToNumber(t) <= ToNumber(player.duration)
  /\ player' = [player EXCEPT !.currentTime = t]
  /\ UNCHANGED <<resumeVars, tick>>
  /\ PlayerFrame

\* handleTimeUpdate, the video's timeupdate listener
HandleTimeUpdate ==
  /\ player.url # ""
  /\ PlayerSaves("timeupdate", TRUE)
  /\ UNCHANGED player
  /\ PlayerFrame

\* The callback of setInterval(..., 5000)
SaveInterval ==
  /\ player.url # ""
  /\ PlayerSaves("interval", ~player.paused)
  /\ UNCHANGED player
  /\ PlayerFrame

\* handleResume
HandleResume ==
  /\ player.showResumePrompt
  /\ player.resumePosition # Null
  /\ player' = [player EXCEPT !.currentTime = player.resumePosition,
                              !.showResumePrompt = FALSE]
  /\ UNCHANGED <<resumeVars, tick>>
  /\ PlayerFrame

\* handleDismissResume
HandleDismissResume ==
  /\ player.showResumePrompt
  /\ player' = [player EXCEPT !.showResumePrompt = FALSE]
  /\ resumeData' = clearResumePosition(resumeData, player.url)
  /\ resumeLog' = [resumeLog EXCEPT ![player.url] = NoEntry]
  /\ lastResume' = [op |-> "clear", id |-> player.url, entry |-> NoEntry, result |-> FALSE]
  /\ UNCHANGED tick
  /\ PlayerFrame

\* --------------------------------------------------- the sidecar's plugins
\* POST /plugin/load and DELETE /plugin/{pluginId} are served by Netty's
\* worker threads; PluginManager's methods take no lock of their own, only
\* the two concurrent maps and the monitor of APIHolder.allProviders.
PluginIds == {"p", "q"}

\* (pluginId, pluginPath) pairs of the load requests: one id from two
\* repositories, one id from one.
LoadRequests == {<<"p", "f1">>, <<"p", "f2">>, <<"q", "f3">>}

\* A PluginInstance (inst numbers the BasePlugin object), and an absent key
NoInstance == [inst |-> 0, file |-> "", apis |-> {}]

NoApis == [present |-> FALSE, apis |-> {}]

\* A request thread: where it stands in loadPlugin / unloadPlugin and its
\* locals (plugin is unloadPlugin's removed entry, apis loadPlugin's capture)
IdleThread == [pc |-> "idle", op |-> "none", id |-> "", file |-> "", inst |-> 0,
               plugin |-> NoInstance, apis |-> {}]

PluginManagerFrame == UNCHANGED <<coreVars, resumeVars, playerVars, fileVars, rpcVars, pageVars>>

\* A MainAPI the plugin's load() hook registers: sourcePlugin is the
\* plugin's filename
Provider(n, file) == [inst |-> n, sourcePlugin |-> file]

\* loadPlugin up to the call of unloadPlugin: the file test and the manifest
\* (ok = FALSE: return false).
LoadPluginBegin(t, id, file, ok) ==
  /\ threads[t].pc = "idle"
  /\ <<id, file>> \in LoadRequests
  /\ instances < MaxInstances
  /\ IF ok
     THEN /\ threads' = [threads EXCEPT ![t] = [IdleThread EXCEPT !.pc = "remove", !.op = "load",
                                                 !.id = id, !.file = file,
                                                 !.inst = instances + 1]]
          /\ instances' = instances + 1
     ELSE UNCHANGED <<threads, instances>>
  /\ UNCHANGED <<loadedPlugins, pluginApis, allProviders, everLoaded>>
  /\ PluginManagerFrame

\* The DELETE route calls unloadPlugin
UnloadPluginBegin(t, id) ==
  /\ threads[t].pc = "idle"
  /\ id \in PluginIds
  /\ threads' = [threads EXCEPT ![t] = [IdleThread EXCEPT !.pc = "remove", !.op = "unload",
                                                          !.id = id]]
  /\ UNCHANGED <<loadedPlugins, pluginApis, allProviders, everLoaded, instances>>
  /\ PluginManagerFrame

\* Where a thread goes when unloadPlugin returns
AfterUnload(th) == IF th.op = "load" THEN [th EXCEPT !.pc = "hook"] ELSE IdleThread

\* val plugin = loadedPlugins.remove(pluginId) ?: return
UnloadRemove(t) ==
  /\ threads[t].pc = "remove"
  /\ LET th == threads[t]
         plugin == loadedPlugins[th.id]
     IN  IF plugin = NoInstance
         THEN /\ threads' = [threads EXCEPT ![t] = AfterUnload(th)]
              /\ UNCHANGED <<loadedPlugins, everLoaded>>
         ELSE /\ loadedPlugins' = [loadedPlugins EXCEPT ![th.id] = NoInstance]
              /\ everLoaded' = {IF e.inst = plugin.inst THEN [e EXCEPT !.state = "unloaded"] ELSE e :
                                  e \in everLoaded}
              /\ threads' = [threads EXCEPT ![t] = [th EXCEPT !.pc = "providers", !.plugin = plugin]]
  /\ UNCHANGED <<pluginApis, allProviders, instances>>
  /\ PluginManagerFrame

\* plugin.apis.forEach { APIHolder.allProviders.remove(api) }
UnloadProviders(t) ==
  /\ threads[t].pc = "providers"
  /\ allProviders' = allProviders \ threads[t].plugin.apis
  /\ threads' = [threads EXCEPT ![t].pc = "apis"]
  /\ UNCHANGED <<loadedPlugins, pluginApis, everLoaded, instances>>
  /\ PluginManagerFrame

\* pluginApis.remove(pluginId), and the return of unloadPlugin
UnloadApis(t) ==
  /\ threads[t].pc = "apis"
  /\ pluginApis' = [pluginApis EXCEPT ![threads[t].id] = NoApis]
  /\ threads' = [threads EXCEPT ![t] = AfterUnload(threads[t])]
  /\ UNCHANGED <<loadedPlugins, allProviders, everLoaded, instances>>
  /\ PluginManagerFrame

\* extractDex, dexToJar, the class loader, the constructor and the load()
\* hook. built = FALSE: no dex or no jar (return false). The hook registers
\* one provider under the plugin's filename; threw = TRUE: it throws after
\* that, and loadPlugin's catch returns false.
LoadHook(t, built, threw) ==
  /\ threads[t].pc = "hook"
  /\ LET th == threads[t]
     IN  IF ~built
         THEN /\ threads' = [threads EXCEPT ![t] = IdleThread]
              /\ UNCHANGED allProviders
         ELSE /\ allProviders' = allProviders \cup {Provider(th.inst, th.file)}
              /\ threads' = [threads EXCEPT ![t] = IF threw THEN IdleThread
                                                   ELSE [th EXCEPT !.pc = "capture"]]
  /\ UNCHANGED <<loadedPlugins, pluginApis, everLoaded, instances>>
  /\ PluginManagerFrame

\* val apis = synchronized(allProviders) { allProviders.filter { ... } }
LoadCapture(t) ==
  /\ threads[t].pc = "capture"
  /\ threads' = [threads EXCEPT ![t].pc = "putApis",
                                ![t].apis = {a \in allProviders :
                                               a.sourcePlugin = threads[t].file}]
  /\ UNCHANGED <<loadedPlugins, pluginApis, allProviders, everLoaded, instances>>
  /\ PluginManagerFrame

\* pluginApis[pluginId] = apis
LoadPutApis(t) ==
  /\ threads[t].pc = "putApis"
  /\ pluginApis' = [pluginApis EXCEPT ![threads[t].id] = [present |-> TRUE, apis |-> threads[t].apis]]
  /\ threads' = [threads EXCEPT ![t].pc = "putInstance"]
  /\ UNCHANGED <<loadedPlugins, allProviders, everLoaded, instances>>
  /\ PluginManagerFrame

\* loadedPlugins[pluginId] = PluginInstance(...); return true
LoadPutInstance(t) ==
  /\ threads[t].pc = "putInstance"
  /\ LET th == threads[t]
     IN  /\ loadedPlugins' = [loadedPlugins EXCEPT ![th.id] =
                                [inst |-> th.inst, file |-> th.file, apis |-> th.apis]]
         /\ everLoaded' = everLoaded \cup {[id |-> th.id, inst |-> th.inst, state |-> "loaded"]}
  /\ threads' = [threads EXCEPT ![t] = IdleThread]
  /\ UNCHANGED <<pluginApis, allProviders, instances>>
  /\ PluginManagerFrame

\* ------------------------------------------- the sidecar client's search
\* How the fetch of POST /plugin/search ends: a 2xx response whose body is
\* a JSON array, a 2xx response whose body is JSON of another shape, a 2xx
\* response whose body is no JSON, a response of another status, or no
\* response (connection refused or reset).
FetchOutcomes == {"ok", "other", "badjson", "status", "network"}

NoRpc == [op |-> "none", outcome |-> "none", isArray |-> FALSE, result |-> <<>>, threw |-> FALSE]

\* A proxy handle as loadPlugin builds it for foreign bytecode
ProxyPool ==
  {[id |-> i, name |-> NameOf(i), owner |-> IF k = "proxy" THEN NameOf(i) ELSE "", kind |-> k] :
     i \in 1..2, k \in {"direct", "proxy"}}

ProxyRegistries ==
  {r \in UNION {[1..n -> ProxyPool] : n \in 0..2} :
     \A i, j \in 1..Len(r) : i # j => r[i].name # r[j].name}

jvmSearch_Rethrow(outcome, body) ==
  CASE outcome = "ok" -> [isArray |-> TRUE, result |-> body, threw |-> FALSE]
    [] outcome = "other" -> [isArray |-> FALSE, result |-> <<>>, threw |-> FALSE]
    [] outcome = "status" -> [isArray |-> TRUE, result |-> <<>>, threw |-> FALSE]
    [] OTHER -> [isArray |-> FALSE, result |-> <<>>, threw |-> TRUE]

\* JVMBridgeService.search: what the promise settles with. The body of a
\* 2xx response is handed on as parsed (the cast checks nothing); every
\* other end of the fetch gives [].
jvmSearch(outcome, body) ==
  CASE outcome = "ok" -> [isArray |-> TRUE, result |-> body, threw |-> FALSE]
    [] outcome = "other" -> [isArray |-> FALSE, result |-> <<>>, threw |-> FALSE]
    [] OTHER -> [isArray |-> TRUE, result |-> <<>>, threw |-> FALSE]

\* One proxy handle's search inside runSearch's fan-out: proxyApi.search
\* awaits jvmBridge.search and runSearch records what it resolved with.
\* A sidecar that does not run refuses the connection.
ProxySearch(i, outcome, n) ==
  /\ sPc = "fanout"
  /\ i \in 1..Len(sProviders)
  /\ sProviders[i].kind = "proxy"
  /\ sCalls[i] = "pending"
  /\ ~sidecarUp => outcome = "network"
  /\ LET r == jvmSearch(outcome, ResultList(sProviders[i].name, n))
     IN  /\ rpc' = [op |-> "search", outcome |-> outcome, isArray |-> r.isArray,
                    result |-> r.result, threw |-> r.threw]
         /\ sCalls' = [sCalls EXCEPT ![i] = IF r.threw THEN "failed"
                                            ELSE IF r.isArray THEN "ok" ELSE "none"]
         /\ perProviderResults' =
              IF ~r.threw /\ r.isArray
              THEN ObjSet(perProviderResults, sProviders[i].name, r.result)
              ELSE perProviderResults
  /\ UNCHANGED <<regVars, mergeVars, loaderVars, auxVars, hostVars, resumeVars, playerVars,
                 fileVars, pmVars, pageVars, sPc, sProviders, sResult>>

\* The search of a handle that is no proxy
DirectReturn(i, n) ==
  /\ i \in 1..Len(sProviders)
  /\ sProviders[i].kind # "proxy"
  /\ ProviderReturn(i, n)

DirectThrow(i) ==
  /\ i \in 1..Len(sProviders)
  /\ sProviders[i].kind # "proxy"
  /\ ProviderThrow(i)

\* ------------------------------------------------ the plugin files on disk
\* Characters of names and URLs, with the code charCodeAt gives
PathChars == {"a", "-", ".", "_", "@"}
CharCode == [c \in PathChars |->
               CASE c = "a" -> 97 [] c = "-" -> 45 [] c = "." -> 46
                 [] c = "_" -> 95 [] c = "@" -> 64]
AlphaNumeric == {"a"}

PathNames == UNION {[1..n -> PathChars] : n \in 1..MaxPathLen}
PluginFileIds == {<<"a">>}
FileData == {"d1", "d2"}

\* name.replace(/[^a-zA-Z0-9]/g, '_')
ReplaceNonAlphaNumeric(name) ==
  [i \in 1..Len(name) |-> IF name[i] \in AlphaNumeric THEN name[i] ELSE "_"]

\* name.split('').reduce((a, b) => { a = ((a << 5) - a) + b.charCodeAt(0);
\* return a & a }, 0): 31 * a + code in 32 bits. For names of up to
\* MaxPathLen + 1 characters the value stays below 2^31 and a & a leaves it.
RECURSIVE HashCode(_, _, _)
HashCode(name, k, a) ==
  IF k > Len(name) THEN a ELSE HashCode(name, k + 1, 31 * a + CharCode[name[k]])

\* sanitize(name): the replaced text, '_', the hash in decimal. The hash has
\* no '_', so the string determines the pair and the pair the string.
sanitize(name) == <<ReplaceNonAlphaNumeric(name), HashCode(name, 1, 0)>>

\* path.join(PLUGINS_DIR, sanitize(repositoryUrl), sanitize(pluginId) + '.cs3')
pluginPath(pluginId, repositoryUrl) == <<sanitize(repositoryUrl), sanitize(pluginId)>>

NoIpc == [op |-> "none", pluginId |-> <<>>, repositoryUrl |-> <<>>, path |-> <<>>,
          result |-> FALSE]

FileAt(path) == {f \in disk : f.path = path}

FileFrame == UNCHANGED <<coreVars, resumeVars, playerVars, rpcVars, pmVars, pageVars>>

\* ipcMain.handle('save-plugin-file'): writeFileSync at the derived path;
\* a failure of the file system is answered with success: false.
SavePluginFile(pluginId, repositoryUrl, data, ok) ==
  LET path == pluginPath(pluginId, repositoryUrl)
  IN  /\ FileAt(path) = {} => Cardinality(disk) < MaxFiles
      /\ disk' = IF ok
                 THEN (disk \ FileAt(path)) \cup
                        {[path |-> path, data |-> data, pluginId |-> pluginId,
                          repositoryUrl |-> repositoryUrl]}
                 ELSE disk
      /\ lastIpc' = [op |-> "save", pluginId |-> pluginId, repositoryUrl |-> repositoryUrl,
                     path |-> path, result |-> ok]
      /\ FileFrame

\* ipcMain.handle('get-plugin-path')
GetPluginPath(pluginId, repositoryUrl) ==
  /\ lastIpc' = [op |-> "path", pluginId |-> pluginId, repositoryUrl |-> repositoryUrl,
                 path |-> pluginPath(pluginId, repositoryUrl), result |-> TRUE]
  /\ UNCHANGED disk
  /\ FileFrame

\* ipcMain.handle('plugin-file-exists')
PluginFileExists(pluginId, repositoryUrl) ==
  /\ lastIpc' = [op |-> "exists", pluginId |-> pluginId, repositoryUrl |-> repositoryUrl,
                 path |-> pluginPath(pluginId, repositoryUrl),
                 result |-> FileAt(pluginPath(pluginId, repositoryUrl)) # {}]
  /\ UNCHANGED disk
  /\ FileFrame

\* ------------------------------------------------------- the search page
\* The module body of SearchPage.tsx, evaluated once when the application
\* loads its pages: if (apiHolder.getAllApis().length === 0)
\* apiHolder.addPlugin(new TestProvider())
EvaluateSearchPage ==
  /\ ~searchPage
  /\ searchPage' = TRUE
  /\ IF Len(getAllApis(apis)) = 0
     THEN LET h == [id |-> FreshId(apis), name |-> "TestProvider", owner |-> "SearchPage",
                    kind |-> "direct"]
          IN  /\ apis' = addPlugin(apis, h)
              /\ lastReg' = [op |-> "add", h |-> h, before |-> apis,
                             events |-> addPluginEvents(apis, h)]
     ELSE UNCHANGED regVars
  /\ UNCHANGED <<searchVars, mergeVars, loaderVars, auxVars, hostVars, resumeVars,
                 playerVars, fileVars, rpcVars, pmVars>>

\* ------------------------------------------------- the details page's load
NoDetail ==
  [op |-> "none", apiName |-> "", apis |-> <<>>, invoked |-> <<>>, pc |-> "idle",
   error |-> "", data |-> NoHandle]

providerFor_FirstWhenAbsent(list, apiName) ==
  IF getApi(list, apiName) # NoHandle THEN getApi(list, apiName)
  ELSE IF Len(getAllApis(list)) > 0 THEN getAllApis(list)[1] ELSE NoHandle

\* apiName ? apiHolder.getApi(apiName) : apiHolder.getAllApis()[0]
providerFor(list, apiName) ==
  IF apiName # "" THEN getApi(list, apiName)
  ELSE IF Len(getAllApis(list)) > 0 THEN getAllApis(list)[1] ELSE NoHandle

\* loadData() of the details page for a given url, up to its await: the
\* provider is looked up; without one the page shows 'Provider not found',
\* else provider.load(url) is called.
LoadDataStart(apiName) ==
  /\ detail.pc # "loading"
  /\ LET provider == providerFor(apis, apiName)
     IN  detail' =
           IF provider = NoHandle
           THEN [op |-> "load", apiName |-> apiName, apis |-> apis, invoked |-> <<>>,
                 pc |-> "done", error |-> "Provider not found", data |-> NoHandle]
           ELSE [op |-> "load", apiName |-> apiName, apis |-> apis, invoked |-> <<provider>>,
                 pc |-> "loading", error |-> "", data |-> NoHandle]
  /\ UNCHANGED <<regVars, searchVars, mergeVars, loaderVars, auxVars, jvmBridgeProcess,
                 running, spawns, kills, listener, isInitialized, probe, sup, snap, extVars>>

\* provider.load(url) resolved (the data is shown) or rejected (the message
\* is shown); nothing is called again.
LoadDataSettled(ok) ==
  /\ detail.pc = "loading"
  /\ detail' = [detail EXCEPT !.pc = "done",
                              !.error = IF ok THEN "" ELSE "Failed to load data",
                              !.data = IF ok THEN detail.invoked[1] ELSE NoHandle]
  /\ UNCHANGED <<regVars, searchVars, mergeVars, loaderVars, auxVars, jvmBridgeProcess,
                 running, spawns, kills, listener, isInitialized, probe, sup, snap, extVars>>

\* ------------------------------------------- the registry's arrays as objects
NoSnap == [taken |-> FALSE, arr |-> <<>>, was |-> <<>>, alias |-> FALSE]

getAllApisArray_Live(list) == [arr |-> list, alias |-> TRUE]

\* getAllApis() as an object: [...this.apis] is a new array with the elements
\* of this.apis, not the array this.apis refers to.
getAllApisArray(list) == [arr |-> list, alias |-> FALSE]

\* A caller takes getAllApis() and keeps the array.
ListAll ==
  /\ snap' = [taken |-> TRUE, arr |-> getAllApisArray(apis).arr, was |-> apis,
              alias |-> getAllApisArray(apis).alias]
  /\ UNCHANGED <<regVars, searchVars, mergeVars, loaderVars, auxVars, jvmBridgeProcess,
                 running, spawns, kills, listener, isInitialized, probe, sup, detail, extVars>>

\* addPlugin(h) on the array objects: removePlugin(existing) makes this.apis
\* refer to a new array; push changes the array this.apis refers to in place,
\* and with it any other reference to that same array.
Register(h) ==
  /\ apis' = addPlugin(apis, h)
  /\ lastReg' = [op |-> "add", h |-> h, before |-> apis, events |-> addPluginEvents(apis, h)]
  /\ snap' = IF getApi(apis, h.name) # NoHandle THEN [snap EXCEPT !.alias = FALSE]
             ELSE IF snap.alias THEN [snap EXCEPT !.arr = Append(snap.arr, h)]
             ELSE snap
  /\ UNCHANGED <<searchVars, mergeVars, loaderVars, auxVars, jvmBridgeProcess,
                 running, spawns, kills, listener, isInitialized, probe, sup, detail, extVars>>

\* removePlugin(h) on the array objects: this.apis = this.apis.filter(...)
\* refers to a new array whether or not h was in it.
Unregister(h) ==
  /\ apis' = removePlugin(apis, h)
  /\ lastReg' = [op |-> "remove", h |-> h, before |-> apis, events |-> removePluginEvents(apis, h)]
  /\ snap' = [snap EXCEPT !.alias = FALSE]
  /\ UNCHANGED <<searchVars, mergeVars, loaderVars, auxVars, jvmBridgeProcess,
                 running, spawns, kills, listener, isInitialized, probe, sup, detail, extVars>>

\* ---------------------------------------------------------- specifications
RegInit ==
  /\ apis = <<>>
  /\ lastReg = NoReg

\* The host before app.whenReady: the renderer's bridge service constructed
ResumeIdle ==
  /\ resumeData = [id \in ContentIds |-> NoEntry]
  /\ resumeLog = [id \in ContentIds |-> NoEntry]
  /\ lastResume = NoResumeCall

PlayerIdle ==
  /\ player = NoPlayer
  /\ tick = NoTick

FileIdle ==
  /\ disk = {}
  /\ lastIpc = NoIpc

RpcIdle == rpc = NoRpc

PluginManagerIdle ==
  /\ loadedPlugins = [id \in PluginIds |-> NoInstance]
  /\ pluginApis = [id \in PluginIds |-> NoApis]
  /\ allProviders = {}
  /\ everLoaded = {}
  /\ instances = 0
  /\ threads = [t \in 1..MaxThreads |-> IdleThread]

ExtIdle ==
  /\ ResumeIdle
  /\ PlayerIdle
  /\ FileIdle
  /\ RpcIdle
  /\ PluginManagerIdle
  /\ searchPage = FALSE

HostIdle ==
  /\ jvmBridgeProcess = 0
  /\ running = {}
  /\ spawns = 0
  /\ kills = 0
  /\ listener = 0
  /\ isInitialized = FALSE
  /\ probe = "none"
  /\ sup = NoSup
  /\ detail = NoDetail
  /\ snap = NoSnap
  /\ ExtIdle

\* The host once the process that startJvmBridge spawned serves the port
HostServing ==
  /\ jvmBridgeProcess = 1
  /\ running = {1}
  /\ spawns = 1
  /\ kills = 0
  /\ listener = 1
  /\ isInitialized = FALSE
  /\ probe = "none"
  /\ sup = NoSup
  /\ detail = NoDetail
  /\ snap = NoSnap
  /\ ExtIdle

AuxIdle ==
  /\ fetches = 0
  /\ pluginFile = [key \in Catalog |-> NoCode]
  /\ call = NoCall
  /\ used = NoUse
  /\ classLog = {}

LoaderIdle ==
  /\ storedPlugins = <<>>
  /\ pluginCode = [key \in Catalog |-> NoCode]
  /\ jvmLoaded = {}
  /\ inst = [k \in 1..MaxInstalls |-> Idle]
  /\ last = NoLast
  /\ staged = [k \in 1..MaxInstalls |-> NoCode]
  /\ sidecarUp = TRUE
  /\ HostServing
  /\ AuxIdle

SearchIdle ==
  /\ sPc = "idle"
  /\ sProviders = <<>>
  /\ sCalls = <<>>
  /\ perProviderResults = <<>>
  /\ sResult = NoResult

Init ==
  /\ RegInit
  /\ SearchIdle
  /\ mLists = <<>>
  /\ mOut = <<>>
  /\ LoaderIdle

Next ==
  \/ \E h \in HandlePool : AddPlugin(h)
  \/ \E h \in HandlePool : RemovePlugin(h)

Spec == Init /\ [][Next]_vars

\* The registries the ApiHolder can hold: handles of pairwise different names.
Registries ==
  {r \in UNION {[1..n -> HandlePool] : n \in 0..Len(Names)} :
     \A i, j \in 1..Len(r) : i # j => r[i].name # r[j].name}

SearchInit ==
  /\ apis \in Registries
  /\ lastReg = NoReg
  /\ SearchIdle
  /\ mLists = <<>>
  /\ mOut = <<>>
  /\ LoaderIdle

SearchStep ==
  \/ \E i \in 1..MaxHandles, n \in 0..MaxResults : ProviderReturn(i, n)
  \/ \E i \in 1..MaxHandles : ProviderNoArray(i)
  \/ \E i \in 1..MaxHandles : ProviderThrow(i)
  \/ AwaitAll
  \/ \E n \in 0..MaxStremio : StremioReturn(n)
  \/ StremioThrow

SearchNext ==
  \/ \E q \in Queries, active \in SUBSET NameSet : SearchStart(q, active)
  \/ \E i \in 1..MaxHandles : ProviderHang(i)
  \/ SearchStep

SearchSpec == SearchInit /\ [][SearchNext]_vars

MergeInit ==
  /\ RegInit
  /\ SearchIdle
  /\ mLists \in {ListsOfShape(shape) : shape \in ListShapes}
  /\ mOut = NoMerge
  /\ LoaderIdle

MergeNext == MergeRun

MergeSpec == MergeInit /\ [][MergeNext]_vars

Versions == {1}

LoaderInit == Init

\* The loader with the caches of the JVM path left out: auxVars stay as they are
LoaderNext ==
  \/ /\ \E k \in 1..MaxInstalls, name \in PluginNames, repo \in Repos, version \in Versions :
          LoadPluginStart(k, name, repo, version)
     /\ UNCHANGED auxVars
  \/ /\ \E k \in 1..MaxInstalls, pkg \in Packages : LoadPluginDownloaded(k, pkg)
     /\ UNCHANGED auxVars
  \/ /\ \E k \in 1..MaxInstalls : LoadPluginDownloadFailed(k)
     /\ UNCHANGED auxVars
  \/ /\ \E k \in 1..MaxInstalls, outcome \in {"loaded", "rejected", "broken"} :
          SidecarLoad(k, outcome)
     /\ UNCHANGED auxVars
  \/ /\ \E k \in 1..MaxInstalls : JvmBridgeReplied(k)
     /\ UNCHANGED auxVars
  \/ /\ \E k \in 1..MaxInstalls : JvmBridgeFailed(k)
     /\ UNCHANGED auxVars
  \/ /\ \E internalName \in PluginNames : UnloadPlugin(internalName)
     /\ UNCHANGED auxVars

LoaderSpec == LoaderInit /\ [][LoaderNext]_vars

\* One plugin of one repository, installed, uninstalled and reinstalled while
\* its URL serves any of InstallPackages and the catalog goes through the
\* versions 1..MaxVersion; the sidecar runs or was never started.
InstallCodes ==
  {[head |-> "PK", exports |-> "throws", size |-> z, at |-> 0] : z \in {"small", "large"}}
    \cup {[head |-> "plain", exports |-> e, size |-> "small", at |-> 0] :
             e \in {"a", "throws", "invalid", "null"}}

InstallPackages ==
  {[transport |-> t, code |-> c] : t \in {"buffer", "text"}, c \in InstallCodes}

InstallInit ==
  /\ RegInit
  /\ SearchIdle
  /\ mLists = <<>>
  /\ mOut = <<>>
  /\ storedPlugins = <<>>
  /\ pluginCode = [key \in Catalog |-> NoCode]
  /\ jvmLoaded = {}
  /\ inst = [k \in 1..MaxInstalls |-> Idle]
  /\ last = NoLast
  /\ staged = [k \in 1..MaxInstalls |-> NoCode]
  /\ sidecarUp \in BOOLEAN
  /\ IF sidecarUp THEN HostServing ELSE HostIdle
  /\ AuxIdle

InstallNext ==
  \/ \E k \in 1..MaxInstalls, version \in 1..MaxVersion : InstallStart(k, "a", "r1", version)
  \/ \E k \in 1..MaxInstalls, version \in 1..MaxVersion : Reinstall(k, "a", "r1", version)
  \/ \E k \in 1..MaxInstalls, pkg \in InstallPackages : InstallDownloaded(k, pkg)
  \/ \E k \in 1..MaxInstalls : InstallDownloadFailed(k)
  \/ \E k \in 1..MaxInstalls, pkg \in InstallPackages : BridgeDownload(k, pkg)
  \/ \E k \in 1..MaxInstalls, outcome \in {"loaded", "rejected", "broken"} :
        SidecarLoadStaged(k, outcome)
  \/ \E k \in 1..MaxInstalls : BridgeReplied(k)
  \/ \E k \in 1..MaxInstalls : BridgeFailed(k)
  \/ Uninstall("a")

InstallSpec == InstallInit /\ [][InstallNext]_vars

\* Installs started from the plugin page while others are in flight. The
\* install button of a plugin is disabled while its own loadPlugin runs, so
\* calls in flight differ in internal name or in repository.
ConcPackages ==
  {[transport |-> "text", code |-> c] :
     c \in {[head |-> "PK", exports |-> "throws", size |-> "small", at |-> 0],
            [head |-> "plain", exports |-> "a", size |-> "small", at |-> 0],
            [head |-> "plain", exports |-> "b", size |-> "small", at |-> 0]}}

handleInstallPlugin(k, name, repo, version) ==
  /\ \A j \in DOMAIN inst : inst[j].pc # "idle" => <<inst[j].name, inst[j].repo>> # <<name, repo>>
  /\ LoadPluginStart(k, name, repo, version)

ConcInit ==
  /\ RegInit
  /\ SearchIdle
  /\ mLists = <<>>
  /\ mOut = <<>>
  /\ storedPlugins = <<>>
  /\ pluginCode = [key \in Catalog |-> NoCode]
  /\ jvmLoaded = {}
  /\ inst = [k \in 1..MaxConcurrent |-> Idle]
  /\ last = NoLast
  /\ staged = [k \in 1..MaxConcurrent |-> NoCode]
  /\ sidecarUp = TRUE
  /\ HostServing
  /\ AuxIdle

ConcNext ==
  \/ /\ \E k \in 1..MaxConcurrent, name \in PluginNames, repo \in Repos, version \in Versions :
          handleInstallPlugin(k, name, repo, version)
     /\ UNCHANGED auxVars
  \/ /\ \E k \in 1..MaxConcurrent, pkg \in ConcPackages : LoadPluginDownloaded(k, pkg)
     /\ UNCHANGED auxVars
  \/ /\ \E k \in 1..MaxConcurrent : LoadPluginDownloadFailed(k)
     /\ UNCHANGED auxVars
  \/ /\ \E k \in 1..MaxConcurrent, outcome \in {"loaded", "rejected", "broken"} :
          SidecarLoad(k, outcome)
     /\ UNCHANGED auxVars
  \/ /\ \E k \in 1..MaxConcurrent : JvmBridgeReplied(k)
     /\ UNCHANGED auxVars
  \/ /\ \E k \in 1..MaxConcurrent : JvmBridgeFailed(k)
     /\ UNCHANGED auxVars

ConcSpec == ConcInit /\ [][ConcNext]_vars


\* The supervision of the sidecar on its own: the main process starts and
\* stops it, processes exit, the renderer probes and sends requests.
SupervisorInit ==
  /\ RegInit
  /\ SearchIdle
  /\ mLists = <<>>
  /\ mOut = <<>>
  /\ storedPlugins = <<>>
  /\ pluginCode = [key \in Catalog |-> NoCode]
  /\ jvmLoaded = {}
  /\ inst = [k \in 1..MaxInstalls |-> Idle]
  /\ last = NoLast
  /\ staged = [k \in 1..MaxInstalls |-> NoCode]
  /\ sidecarUp = FALSE
  /\ HostIdle
  /\ AuxIdle

SupervisorNext ==
  \/ \E found \in BOOLEAN : startJvmBridge(found)
  \/ \E pid \in 1..MaxSpawns : SidecarServes(pid)
  \/ \E pid \in 1..MaxSpawns : ProcessExit(pid)
  \/ stopJvmBridge
  \/ \E ok \in BOOLEAN : initializeBridge(ok)
  \/ \E ok \in BOOLEAN : BridgeRpc(ok)

SupervisorSpec == SupervisorInit /\ [][SupervisorNext]_vars


\* The loader and the search together: plugin "a" of repository "r1" is
\* installed from script packages and uninstalled while searches run.
EndToEndPackages ==
  {[transport |-> "text", code |-> [head |-> "plain", exports |-> e, size |-> "small", at |-> 0]] :
     e \in {"a", "b", "invalid"}}

EndToEndInit == Init

EndToEndNext ==
  \/ /\ LoadPluginStart(1, "a", "r1", 1)
     /\ UNCHANGED auxVars
  \/ /\ \E pkg \in EndToEndPackages : LoadPluginDownloaded(1, pkg)
     /\ UNCHANGED auxVars
  \/ /\ LoadPluginDownloadFailed(1)
     /\ UNCHANGED auxVars
  \/ /\ UnloadPlugin("a")
     /\ UNCHANGED auxVars
  \/ \E q \in Queries, active \in {{}, {"a"}} : SearchStart(q, active)
  \/ \E i \in 1..MaxHandles, n \in 0..MaxResults : ProviderReturn(i, n)
  \/ \E i \in 1..MaxHandles : ProviderNoArray(i)
  \/ \E i \in 1..MaxHandles : ProviderThrow(i)
  \/ AwaitAll
  \/ \E n \in 0..MaxStremio : StremioReturn(n)
  \/ StremioThrow

EndToEndSpec == EndToEndInit /\ [][EndToEndNext]_vars


\* Installs and uninstalls of a@r1 next to searches and detail loads
ProxySearchInit ==
  /\ apis \in ProxyRegistries
  /\ lastReg = NoReg
  /\ SearchIdle
  /\ mLists = <<>>
  /\ mOut = <<>>
  /\ storedPlugins = <<>>
  /\ pluginCode = [key \in Catalog |-> NoCode]
  /\ jvmLoaded = {}
  /\ inst = [k \in 1..MaxInstalls |-> Idle]
  /\ last = NoLast
  /\ staged = [k \in 1..MaxInstalls |-> NoCode]
  /\ sidecarUp \in BOOLEAN
  /\ IF sidecarUp THEN HostServing ELSE HostIdle
  /\ AuxIdle

ProxySearchNext ==
  \/ \E q \in {<<"x", "x">>}, active \in {{}, {"a"}} : SearchStart(q, active)
  \/ \E i \in 1..2, outcome \in FetchOutcomes, n \in 0..MaxResults : ProxySearch(i, outcome, n)
  \/ \E i \in 1..2, n \in 0..MaxResults : DirectReturn(i, n)
  \/ \E i \in 1..2 : DirectThrow(i)
  \/ AwaitAll
  \/ \E n \in 0..MaxStremio : StremioReturn(n)
  \/ StremioThrow

ProxySearchSpec == ProxySearchInit /\ [][ProxySearchNext]_vars

SidecarInit == Init

SidecarNext ==
  \/ \E t \in 1..MaxThreads, r \in LoadRequests, ok \in BOOLEAN : LoadPluginBegin(t, r[1], r[2], ok)
  \/ \E t \in 1..MaxThreads, id \in PluginIds : UnloadPluginBegin(t, id)
  \/ \E t \in 1..MaxThreads : UnloadRemove(t)
  \/ \E t \in 1..MaxThreads : UnloadProviders(t)
  \/ \E t \in 1..MaxThreads : UnloadApis(t)
  \/ \E t \in 1..MaxThreads, built, threw \in BOOLEAN : LoadHook(t, built, threw)
  \/ \E t \in 1..MaxThreads : LoadCapture(t)
  \/ \E t \in 1..MaxThreads : LoadPutApis(t)
  \/ \E t \in 1..MaxThreads : LoadPutInstance(t)

SidecarSpec == SidecarInit /\ [][SidecarNext]_vars

OrchestratorInit == Init

OrchestratorNext ==
  \/ EvaluateSearchPage
  \/ EndToEndNext
  \/ \E apiName \in {"a", "b", ""} : LoadDataStart(apiName)
  \/ \E ok \in BOOLEAN : LoadDataSettled(ok)

OrchestratorSpec == OrchestratorInit /\ [][OrchestratorNext]_vars

\* The details page over any registry, while handles are removed
DetailsInit == SearchInit

DetailsNext ==
  \/ \E apiName \in NameSet \cup {""} : LoadDataStart(apiName)
  \/ \E ok \in BOOLEAN : LoadDataSettled(ok)
  \/ \E h \in HandlePool : RemovePlugin(h)

DetailsSpec == DetailsInit /\ [][DetailsNext]_vars

\* Callers that keep the array of getAllApis while handles come and go
SnapshotInit == Init

SnapshotNext ==
  \/ ListAll
  \/ \E h \in HandlePool : Register(h)
  \/ \E h \in HandlePool : Unregister(h)

SnapshotSpec == SnapshotInit /\ [][SnapshotNext]_vars


\* The resume service under any calls
ResumeInit == Init

ResumeNext ==
  \/ \E id \in ContentIds, p \in Positions, d \in Durations, n \in EpisodeNames :
       SaveResumePosition(id, p, d, n)
  \/ \E id \in ContentIds : ClearResumePosition(id)
  \/ \E id \in ContentIds : CheckResume(id)

ResumeSpec == ResumeInit /\ [][ResumeNext]_vars

\* The player page: the only writer of the resume service
PlayerInit == Init

PlayerNext ==
  \/ \E url \in ContentIds : OpenPlayer(url)
  \/ \E d \in MediaDurations : HandleLoadedMetadata(d)
  \/ TogglePlayPause
  \/ \E t \in PlayerTimes : TimeMoves(t)
  \/ HandleTimeUpdate
  \/ SaveInterval
  \/ HandleResume
  \/ HandleDismissResume

PlayerSpec == PlayerInit /\ [][PlayerNext]_vars


\* The plugin-file handlers of the main process
FilesInit == Init

FilesNext ==
  \/ \E id \in PluginFileIds, repo \in PathNames, data \in FileData, ok \in BOOLEAN :
       SavePluginFile(id, repo, data, ok)
  \/ \E id \in PluginFileIds, repo \in PathNames : GetPluginPath(id, repo)
  \/ \E id \in PluginFileIds, repo \in PathNames : PluginFileExists(id, repo)

FilesSpec == FilesInit /\ [][FilesNext]_vars

\* ------------------------------------------------------------------ claims

\* C1: after any sequence of addPlugin and removePlugin calls, getAllApis holds
\* no two handles of the same name, and an addPlugin leaves exactly one handle
\* of the added handle's name: the added handle itself.
C1_UniqueNames ==
  /\ \A i, j \in 1..Len(getAllApis(apis)) :
       i # j => getAllApis(apis)[i].name # getAllApis(apis)[j].name
  /\ lastReg.op = "add" =>
       /\ Cardinality({k \in 1..Len(apis) : apis[k].name = lastReg.h.name}) = 1
       /\ \A k \in 1..Len(apis) : apis[k].name = lastReg.h.name => apis[k].id = lastReg.h.id

\* An addPlugin met another handle object of the same name.
C1_Witness ==
  /\ lastReg.op = "add"
  /\ \E k \in 1..Len(lastReg.before) :
       /\ lastReg.before[k].name = lastReg.h.name
       /\ lastReg.before[k].id # lastReg.h.id
  /\ Len(apis) >= 2

\* The per-provider lists that were recorded, as runSearch would hold them had
\* the provider calls completed in the order of the snapshot (stremio last).
RECURSIVE SnapshotOrderObj(_, _, _)
SnapshotOrderObj(providers, obj, k) ==
  IF k > Len(providers)
  THEN (IF ObjHas(obj, "stremio")
        THEN <<[key |-> "stremio", val |-> ObjGet(obj, "stremio")]>> ELSE <<>>)
  ELSE (IF ObjHas(obj, providers[k].name)
        THEN <<[key |-> providers[k].name, val |-> ObjGet(obj, providers[k].name)]>>
        ELSE <<>>)
         \o SnapshotOrderObj(providers, obj, k + 1)

\* C2: for a fixed snapshot and fixed per-provider lists, mergedResults does not
\* depend on the order in which the provider calls complete: whatever that
\* order was, it is the merge of the lists taken in the snapshot's order.
C2_MergeIndependentOfCompletionOrder ==
  sResult.status = "success" =>
    sResult.mergedResults =
      RoundRobinMerge(ObjValues(SnapshotOrderObj(sProviders, sResult.perProviderResults, 1)))

\* The lists of the providers whose call returned, in snapshot order.
RECURSIVE RemainingLists(_, _, _, _)
RemainingLists(providers, calls, obj, k) ==
  IF k > Len(providers) THEN <<>>
  ELSE (IF calls[k] = "ok" THEN <<ObjGet(obj, providers[k].name)>> ELSE <<>>)
         \o RemainingLists(providers, calls, obj, k + 1)

\* C3: when provider calls threw, runSearch still returns the success envelope,
\* mergedResults is the round-robin merge of the remaining providers' lists
\* only, and it is empty when every provider failed.
C3_FailuresExcluded ==
  (sPc = "done" /\ \E i \in 1..Len(sProviders) : sCalls[i] = "failed") =>
    /\ sResult.status = "success"
    /\ sResult.mergedResults =
         RoundRobinMerge(RemainingLists(sProviders, sCalls, sResult.perProviderResults, 1))
    /\ (\A i \in 1..Len(sProviders) : sCalls[i] = "failed") => sResult.mergedResults = <<>>

\* C4: a search in flight can always go on: a provider that never answers is
\* turned into a provider-level failure by a timer, so some step of the search
\* stays possible until it returns.
C4_SearchNeverStuck ==
  sPc \in {"fanout", "stremio"} => ENABLED SearchStep

\* The cells of the lists: <<j, i>> is element i of list j.
MergeCells(lists) == {c \in (1..Len(lists)) \X (1..MaxListLen + 1) : c[2] <= Len(lists[c[1]])}

\* Where round-robin puts cell <<j, i>>: after every cell of a lower index,
\* and after the cells of the same index of earlier lists.
MergeRank(lists, c) ==
  Cardinality({d \in MergeCells(lists) : d[2] < c[2] \/ (d[2] = c[2] /\ d[1] < c[1])}) + 1

\* C5: mergedResults is the round-robin interleave of the lists in their
\* order: index 0 of every list that has one, then index 1, and so on until
\* every list is exhausted.
C5_RoundRobin ==
  mOut # NoMerge =>
    /\ Len(mOut) = Cardinality(MergeCells(mLists))
    /\ \A c \in MergeCells(mLists) : mOut[MergeRank(mLists, c)] = mLists[c[1]][c[2]]

\* [a1,a2], [b1], [c1,c2,c3] merged to [a1,b1,c1,a2,c2,c3]
C5_Witness ==
  /\ mLists = <<ResultList(1, 2), ResultList(2, 1), ResultList(3, 3)>>
  /\ mOut = <<[src |-> 1, n |-> 1], [src |-> 2, n |-> 1], [src |-> 3, n |-> 1],
              [src |-> 1, n |-> 2], [src |-> 3, n |-> 2], [src |-> 3, n |-> 3]>>

\* C6: a loadPlugin of a plugin whose internal name is the name of a handle
\* already in the registry replaces that handle by the newly loaded one.
C6_InstallReplaces ==
  (last.op = "install" /\ last.existed) =>
    /\ last.created # NoHandle
    /\ getApi(apis, last.name) = last.created
    /\ Cardinality({k \in 1..Len(apis) : apis[k].name = last.name}) = 1

\* C7: when addPlugin replaces another handle of the same name, the existing
\* handle is unregistered and its teardown hook invoked exactly once, before
\* the new handle is inserted.
C7_TeardownOnceBeforeInsert ==
  (lastReg.op = "add" /\ Len(lastReg.events) > 1 /\ lastReg.events[1].h.id # lastReg.h.id) =>
    LET ev == lastReg.events
        old == ev[1].h
        pushAt == CHOOSE k \in 1..Len(ev) : ev[k].ev = "push"
        teardowns == {k \in 1..Len(ev) : ev[k].ev = "teardown" /\ ev[k].h = old}
    IN  /\ ev[1].ev = "remove"
        /\ Cardinality(teardowns) = 1
        /\ \A k \in teardowns : k < pushAt

\* C8: after unloadPlugin(internalName), no handle that an install of that
\* plugin registered is left in the registry.
C8_UninstallRemovesHandle ==
  last.op = "unload" => \A k \in 1..Len(apis) : apis[k].owner # last.name

\* C9: after unloadPlugin(internalName), no record of that internal name is
\* enabled, and no record was deleted.
C9_UninstallDisablesRecords ==
  last.op = "unload" =>
    /\ \A k \in 1..Len(storedPlugins) :
         storedPlugins[k].internalName = last.name => ~storedPlugins[k].enabled
    /\ Len(storedPlugins) >= last.recs

\* C10: after unloadPlugin of a plugin backed by the sidecar, the sidecar's
\* loaded plugin ids no longer contain the internal name.
C10_UninstallUnloadsSidecar ==
  (last.op = "unload" /\ last.removed.kind = "proxy") => last.name \notin jvmLoaded

C12_SuccessHasEnabledRecord ==
  (last.op = "install" /\ last.ok) =>
    \E i \in 1..Len(storedPlugins) :
      /\ storedPlugins[i].internalName = last.name
      /\ storedPlugins[i].repositoryUrl = last.repo
      /\ storedPlugins[i].enabled

\* C13: an install of a plugin that has an installed record skips the fetch
\* exactly when the package is cached and the record's version is the
\* descriptor's version; with another version it fetches the bytes again.
C13_FetchUnlessSameVersion ==
  (call.op = "install" /\ ~call.existed /\ call.recVersion # 0) =>
    (~call.fetched <=> (call.cached /\ call.recVersion = call.version))

\* C14: the bytes evaluated in-process or handed to the sidecar in the course
\* of a reloadPlugin were fetched after the reloadPlugin began.
C14_ReloadUsesFetchedBytes ==
  (call.op = "reload" /\ used.by # "none") => used.code.at > call.from

\* C15: installs of one internal name serialize: no two loadPlugin calls of the
\* same internal name are in flight together, so their download, execute and
\* register steps cannot interleave.
C15_SameNameInstallsSerialize ==
  \A j, k \in DOMAIN inst :
    (j # k /\ inst[j].pc # "idle" /\ inst[k].pc # "idle") => inst[j].name # inst[k].name


\* C16: classification is a function of the bytes: whenever the same bytes were
\* classified twice, from the network under either content type or from the
\* stored code, they were classified the same way.
C16_ClassificationIsFunctionOfBytes ==
  \A x, y \in classLog : x[1] = y[1] => x[2] = y[2]

\* C17: bytes that begin with the archive signature 'PK' are classified as an
\* archive whatever their size, and source text without control characters is
\* classified as a script.
C17_SignatureAndSourceClassify ==
  (call.op \in {"install", "reload"} /\ call.got # NoCode) =>
    call.class = IF call.got.head = "PK" THEN "archive" ELSE "script"


C19_BadExportsFailValidate ==
  [][(/\ last'.op = "install"
      /\ used'.by = "eval"
      /\ used'.code.exports \in {"invalid", "null"})
       => /\ ~last'.ok
          /\ last'.stage = "validate"
          /\ apis' = apis
          /\ storedPlugins' = storedPlugins]_vars


C21_HealthyOnlyAfterSuccessfulProbe ==
  isInitialized => probe = "ok"


\* C22: a failed request to the sidecar changes nothing of what the host keeps
\* about it (the process held, the initialized flag); the process held is
\* given up only by its exit notification or by stopJvmBridge, and once none
\* is held none is held until a startJvmBridge.
C22_RpcFailureKeepsState ==
  [][/\ (sup'.op = "rpc" /\ ~sup'.ok) =>
          UNCHANGED <<jvmBridgeProcess, running, listener, isInitialized, probe>>
     /\ (jvmBridgeProcess # 0 /\ jvmBridgeProcess' = 0) => sup'.op \in {"exit", "stop"}
     /\ (jvmBridgeProcess = 0 /\ jvmBridgeProcess' # 0) => sup'.op = "start"]_vars

\* A request failed although the probe had succeeded and the sidecar serves,
\* and the host still holds the process and the flag.
C22_Witness ==
  /\ sup.op = "rpc"
  /\ ~sup.ok
  /\ probe = "ok"
  /\ isInitialized
  /\ jvmBridgeProcess # 0
  /\ listener = jvmBridgeProcess


\* C23: whatever calls of startJvmBridge were made, at most one sidecar
\* process spawned by it is alive at any time.
C23_SingleSidecarProcess ==
  Cardinality(running) <= 1


\* C24: stopJvmBridge sends one termination signal and gives up the process
\* when one is held; when none is held (a second stop, or no process was ever
\* started) it sends no signal and none is held afterwards.
C24_StopIdempotent ==
  [][sup'.op = "stop" =>
       /\ jvmBridgeProcess' = 0
       /\ kills' = IF jvmBridgeProcess # 0 THEN kills + 1 ELSE kills
       /\ running' = running]_vars

\* A stop that found no process held, after an earlier stop had signalled one.
C24_Witness ==
  /\ sup.op = "stop"
  /\ ~sup.ok
  /\ sup.held = 0
  /\ kills = 1
  /\ spawns = 1
  /\ jvmBridgeProcess = 0


\* C25: runSearch of a query shorter than two characters returns the idle
\* result with no merged and no per-provider results, and starts no provider's
\* search.
C25_ShortQueryIdle ==
  [][\A query \in Queries, active \in SUBSET NameSet :
       (Len(query) < 2 /\ SearchStart(query, active)) =>
         /\ sResult'.status = "idle"
         /\ sResult'.mergedResults = <<>>
         /\ sResult'.perProviderResults = <<>>
         /\ sProviders' = <<>>
         /\ sCalls' = <<>>
         /\ sPc' = "done"]_vars

\* The one-character query returned idle over a registry that has providers.
C25_Witness ==
  /\ sPc = "done"
  /\ sResult.status = "idle"
  /\ sResult.query = <<"x">>
  /\ Len(apis) > 0
  /\ sCalls = <<>>


\* C26: every key of perProviderResults is the name of a handle of the
\* (filtered) registry snapshot, and every merged result was returned by one
\* of these handles: nothing comes from a source outside the snapshot.
C26_OnlySnapshotContributes ==
  sResult.status = "success" =>
    /\ \A k \in 1..Len(sResult.perProviderResults) :
         \E i \in 1..Len(sProviders) : sProviders[i].name = sResult.perProviderResults[k].key
    /\ \A m \in 1..Len(sResult.mergedResults) :
         \E i \in 1..Len(sProviders) : sResult.mergedResults[m].src = sProviders[i].name


\* The registry holds one handle, registered by the install of a script
\* plugin that returned last.
OnlyInstalledScript ==
  /\ Len(apis) = 1
  /\ apis[1].kind = "script"
  /\ last.op = "install"
  /\ last.ok
  /\ last.created = apis[1]

\* C27: with a script plugin installed as the only provider, runSearch of a
\* query ("x" or any other that is not blank) fans out to that plugin, and
\* when its search has answered the result is a success whose only
\* per-provider entry and whose merged results are that plugin's results.
C27_EndToEnd ==
  /\ [][\A q \in Queries :
          (Trim(q) # <<>> /\ OnlyInstalledScript /\ SearchStart(q, {})) =>
            (sPc' = "fanout" /\ sProviders' = apis)]_vars
  /\ []((/\ sPc = "done"
         /\ Len(sProviders) = 1
         /\ sProviders[1].kind = "script"
         /\ sCalls[1] = "ok")
          => /\ sResult.status = "success"
             /\ Len(sResult.perProviderResults) = 1
             /\ sResult.perProviderResults[1].key = sProviders[1].name
             /\ sResult.mergedResults = sResult.perProviderResults[1].val)


\* C28: loadData with a provider name calls load on the handle of that name
\* and on no other, once, and when the registry has no handle of that name it
\* calls no provider and ends with an error.
C28_SingleProviderDispatch ==
  (detail.op = "load" /\ detail.apiName # "") =>
    /\ Len(detail.invoked) <= 1
    /\ \A i \in 1..Len(detail.invoked) :
         /\ detail.invoked[i].name = detail.apiName
         /\ detail.invoked[i] = getApi(detail.apis, detail.apiName)
    /\ getApi(detail.apis, detail.apiName) # NoHandle => Len(detail.invoked) = 1
    /\ getApi(detail.apis, detail.apiName) = NoHandle =>
         /\ detail.invoked = <<>>
         /\ detail.pc = "done"
         /\ detail.error # ""
         /\ detail.data = NoHandle

\* The named provider was absent from a registry that holds other providers.
C28_Witness ==
  /\ detail.op = "load"
  /\ detail.apiName = "c"
  /\ Len(detail.apis) >= 2
  /\ getApi(detail.apis, "c") = NoHandle
  /\ detail.error = "Provider not found"
  /\ detail.invoked = <<>>

\* C29: the array a getAllApis call returned stays as it was returned,
\* whatever addPlugin and removePlugin calls follow.
C29_SnapshotUnchanged ==
  snap.taken => snap.arr = snap.was

\* After getAllApis, a handle of a new name was pushed onto the very array the
\* snapshot was copied from.
C29_Witness ==
  /\ snap.taken
  /\ lastReg.op = "add"
  /\ Len(lastReg.events) = 1
  /\ lastReg.before = snap.was
  /\ Len(snap.was) >= 1
  /\ apis = Append(snap.was, lastReg.h)
  /\ snap.arr = snap.was


\* C30: removePlugin of a handle that is not in the registry completes and
\* leaves the registry as it was, however often it is repeated.
C30_UnknownUnregisterNoOp ==
  (lastReg.op = "remove" /\ \A i \in 1..Len(lastReg.before) : lastReg.before[i] # lastReg.h) =>
    /\ apis = lastReg.before
    /\ removePlugin(apis, lastReg.h) = apis

\* A handle that was never registered was removed from a registry that holds
\* another handle of the same name.
C30_Witness ==
  /\ lastReg.op = "remove"
  /\ \A i \in 1..Len(lastReg.before) : lastReg.before[i] # lastReg.h
  /\ \E i \in 1..Len(lastReg.before) : lastReg.before[i].name = lastReg.h.name
  /\ Len(apis) >= 2


\* C31: shouldResume of what getResumePosition returned is true exactly when
\* there is an entry whose position is at least 10 seconds and whose duration
\* is at most 0 or whose position is at most 0.9 of the duration; it is false
\* at 5 of 100 and at 95 of 100 and true at 50 of 100.
C31_ShouldResumeRule ==
  /\ lastResume.op = "check" =>
       LET e == lastResume.entry
           p == ToNumber(e.position)
           d == ToNumber(e.duration)
       IN  lastResume.result <=>
             /\ e # NoEntry
             /\ p >= 10
             /\ d <= 0 \/ 10 * p <= 9 * d
  /\ ~shouldResume(ResumeEntry("u1", Num(5), Num(100), "Episode"))
  /\ ~shouldResume(ResumeEntry("u1", Num(95), Num(100), "Episode"))
  /\ shouldResume(ResumeEntry("u1", Num(50), Num(100), "Episode"))

\* shouldResume accepted the entry at exactly 10 seconds of 100.
C31_Witness ==
  /\ lastResume.op = "check"
  /\ lastResume.entry = ResumeEntry("u1", Num(10), Num(100), "Episode")
  /\ lastResume.result

\* C32: for every episodeUrl, getResumePosition returns the entry of the last
\* saveResumePosition of that url that no clearResumePosition followed, and
\* null when there is none.
C32_GetReturnsLastUpsert ==
  \A id \in ContentIds : getResumePosition(resumeData, id) = resumeLog[id]

\* The same for the urls whose last save passed finite numbers.
FiniteUpsertsKept ==
  \A id \in ContentIds :
    resumeLog[id].duration # Infinity => getResumePosition(resumeData, id) = resumeLog[id]

\* C36: every callback of the player that runs while the duration of the
\* opened video is known and positive saves the current position.
C36_EveryTickUpserts ==
  (tick.kind # "none" /\ tick.url # "" /\ GreaterThan(tick.duration, 0)) => tick.saved

\* C37: every entry the player saves passes shouldResume, as passed and as
\* stored, and so does every entry in the store that only the player writes.
C37_PlayerWritesResumable ==
  /\ lastResume.op = "save" =>
       /\ shouldResume(lastResume.entry)
       /\ shouldResume(JsonEntry(lastResume.entry))
  /\ \A id \in ContentIds : resumeData[id] # NoEntry => shouldResume(resumeData[id])

\* The player saved at 11 seconds of 100, just past the threshold, and the
\* store holds that entry.
C37_Witness ==
  /\ tick.saved
  /\ tick.currentTime = Num(11)
  /\ tick.duration = Num(100)
  /\ lastResume.op = "save"
  /\ resumeData[tick.url] = ResumeEntry(tick.url, Num(11), Num(100), "Episode")


RECURSIVE SumOfLengths(_, _)
SumOfLengths(lists, k) ==
  IF k > Len(lists) THEN 0 ELSE Len(lists[k]) + SumOfLengths(lists, k + 1)

\* C38: in a success envelope mergedResults has as many results as the lists
\* of perProviderResults together, and the results of each provider stand in
\* it in the order of that provider's list, each once.
C38_MergeIsPermutation ==
  sResult.status = "success" =>
    LET obj == sResult.perProviderResults
        merged == sResult.mergedResults
    IN  /\ Len(merged) = SumOfLengths(ObjValues(obj), 1)
        /\ \A k \in 1..Len(obj) :
             SelectSeq(merged, LAMBDA r : r.src = obj[k].key) = obj[k].val
        /\ \A i \in 1..Len(merged) : ObjHas(obj, merged[i].src)

\* Three lists of different lengths were merged.
C38_Witness ==
  /\ sResult.status = "success"
  /\ Len(sResult.perProviderResults) = 3
  /\ \E j, k \in 1..3 :
       /\ Len(sResult.perProviderResults[j].val) = 2
       /\ Len(sResult.perProviderResults[k].val) = 1
  /\ Len(sResult.mergedResults) >= 4


\* C39: the exit handler of a process that is not the one the supervisor
\* holds, running after a stop, leaves the held handle in place.
C39_ExitKeepsNewerHandle ==
  (sup.op = "exit" /\ kills >= 1 /\ sup.held # 0 /\ sup.held # sup.pid) =>
    jvmBridgeProcess = sup.held


\* C33: the three handlers derive the same path from (pluginId,
\* repositoryUrl); after a successful save the file exists at that path; and
\* a file saved for one repositoryUrl is at no path that the same pluginId
\* has under another repositoryUrl.
C33_PathPerOrigin ==
  /\ lastIpc.op # "none" => lastIpc.path = pluginPath(lastIpc.pluginId, lastIpc.repositoryUrl)
  /\ (lastIpc.op = "save" /\ lastIpc.result) => FileAt(lastIpc.path) # {}
  /\ \A f \in disk, repo \in PathNames :
       repo # f.repositoryUrl => pluginPath(f.pluginId, repo) # f.path


OrchestratorSteps ==
  [][(searchVars' # searchVars \/ detail' # detail) =>
       (apis' = apis /\ lastReg' = lastReg /\ storedPlugins' = storedPlugins)]_vars

\* C34: no step of runSearch and no step of loadData changes the registry,
\* and every step that changes it is a step of loadPlugin or unloadPlugin.
C34_OrchestratorReadsOnly ==
  [][/\ (searchVars' # searchVars \/ detail' # detail) =>
          (apis' = apis /\ lastReg' = lastReg /\ storedPlugins' = storedPlugins)
     /\ apis' # apis => (last' # last \/ inst' # inst)]_vars

\* C35: the sidecar client's search settles with an empty list, and does not
\* throw, whenever the fetch ends without a 2xx response (another status, no
\* connection, sidecar not running); runSearch never sees a proxy handle's
\* search fail, and a search made while the sidecar is down ends in the
\* success envelope with an empty list under each proxy handle's name and
\* no result of a proxy handle in the merged list.
C35_ProxySearchDegrades ==
  /\ (rpc.op = "search" /\ rpc.outcome \in {"status", "network", "badjson"}) =>
       (rpc.isArray /\ rpc.result = <<>> /\ ~rpc.threw)
  /\ \A i \in 1..Len(sProviders) : sProviders[i].kind = "proxy" => sCalls[i] # "failed"
  /\ (sPc = "done" /\ ~sidecarUp /\ Len(sResult.query) > 1) =>
       /\ sResult.status = "success"
       /\ \A i \in 1..Len(sProviders) : sProviders[i].kind = "proxy" =>
            /\ ObjHas(sResult.perProviderResults, sProviders[i].name)
            /\ ObjGet(sResult.perProviderResults, sProviders[i].name) = <<>>
            /\ \A k \in 1..Len(sResult.mergedResults) :
                 sResult.mergedResults[k].src # sProviders[i].name

C35_Witness ==
  /\ sPc = "done"
  /\ ~sidecarUp
  /\ rpc.op = "search"
  /\ rpc.outcome = "network"
  /\ sResult.status = "success"
  /\ \E i \in 1..Len(sProviders) : sProviders[i].kind = "proxy"
  /\ Len(sResult.mergedResults) > 0

Quiescent == \A t \in 1..MaxThreads : threads[t].pc = "idle"

\* every pluginId has at most one instance that was loaded and not unloaded
OneInstancePerId ==
  \A id \in PluginIds :
    Cardinality({e \in everLoaded : e.id = id /\ e.state = "loaded"}) <= 1

\* loadedPlugins and pluginApis have the same keys
SameKeySet ==
  \A id \in PluginIds : (loadedPlugins[id] # NoInstance) <=> pluginApis[id].present

\* every registered provider of an instance that was ever in loadedPlugins
\* belongs to an instance that is there now
NoStaleProvider ==
  \A a \in allProviders :
    (\E e \in everLoaded : e.inst = a.inst) =>
      (\E id \in PluginIds : loadedPlugins[id].inst = a.inst)

\* C40: whenever no load or unload request is in progress in the sidecar's
\* PluginManager, every pluginId has at most one loaded instance,
\* loadedPlugins and pluginApis have the same key set, and no provider of a
\* replaced or unloaded instance is registered in APIHolder.allProviders.
C40_PluginManagerConsistent ==
  Quiescent => (OneInstancePerId /\ SameKeySet /\ NoStaleProvider)

====
